---- MODULE Spec2Model ----
(***************************************************************************)
(* A model of the lattice-crypto-learning workspace: the field and         *)
(* polynomial arithmetic of lattice-core (zq.rs, polynomial.rs, ntt.rs,    *)
(* vector_matrix.rs), its seed expansion (hashing.rs, sampling.rs) and the *)
(* Kyber CPA encryption and KEM built on it (kyber-ml-kem: cpa.rs, kem.rs, *)
(* params.rs).                                                             *)
(*                                                                         *)
(* Values.  A ZqElement is its representative; the modulus its             *)
(* coefficients were built with is kept once per polynomial (field cq),    *)
(* next to the polynomial's PolyModulusInfo (degree, q, is_ntt_form).      *)
(* Coefficient vectors are functions over 0..n-1, byte strings are         *)
(* sequences of 0..255.  A failed assert!, an out-of-range slice or a      *)
(* copy_from_slice of the wrong length is the value Panic, which every     *)
(* operation passes on.                                                    *)
(***************************************************************************)
EXTENDS Integers, Sequences, FiniteSets, TLC

(***************************************************************************)
(* Program constants.                                                      *)
(***************************************************************************)
Q == 3329
N == 256
DU == 10
DV == 4
KyberPsi == 17
PkCoeffBits == 12
SEED_BYTES == 32

(***************************************************************************)
(* Generic helpers.                                                        *)
(***************************************************************************)
Panic == [panic |-> TRUE]

\* TLC keeps [x \in S |-> e] unevaluated; comparing it makes it a table
Force(f) == IF f = f THEN f ELSE f

Pow2(k) == 2^k

\* Rust's % on i32: the remainder has the sign of the dividend
Rem(a, b) == IF a >= 0 \/ a % b = 0 THEN a % b ELSE (a % b) - b

\* Rust's / on i32 and i64: truncation toward zero
Quot(a, b) == IF a >= 0 THEN a \div b ELSE -((-a) \div b)

\* usize::trailing_zeros for a power of two
RECURSIVE trailing_zeros(_)
trailing_zeros(n) == IF n % 2 = 1 THEN 0 ELSE 1 + trailing_zeros(n \div 2)

is_power_of_two(n) == n >= 1 /\ Pow2(trailing_zeros(n)) = n

(***************************************************************************)
(* zq.rs                                                                   *)
(***************************************************************************)
\* the remainder as % leaves it, without the correction of a negative one
TruncatedRemainder(value, q) == Rem(value, q)

normalize(value, q) ==
  LET result == Rem(value, q) IN
  IF result < 0 THEN result + q ELSE result

ZqNew(value, q) == normalize(value, q)

\* (a as i64 * b as i64) as i32 for 0 <= a, b < 2^31: the low 32 bits of the
\* product, read as a signed number.  Computed in 16-bit limbs.
MulTruncI32(a, b) ==
  IF a < 46341 /\ b < 46341 THEN a * b
  ELSE
    LET al == a % 65536
        ah == a \div 65536
        bl == b % 65536
        bh == b \div 65536
        p0 == al * (bl % 256)
        p1 == al * (bl \div 256)
        low == p0 + (p1 % 256) * 256
        lo16 == low % 65536
        carry == (low \div 65536) + (p1 \div 256)
        hi16 == (carry + ((ah * bl) % 65536) + ((al * bh) % 65536)) % 65536
    IN IF hi16 >= 32768 THEN (hi16 - 65536) * 65536 + lo16
       ELSE hi16 * 65536 + lo16

ZqAdd(a, b, q) == ZqNew(a + b, q)

ZqSub(a, b, q) == ZqNew(a - b, q)

ZqMul(a, b, q) == ZqNew(MulTruncI32(a, b), q)

ZqNeg(a, q) == ZqNew(-a, q)

(***************************************************************************)
(* polynomial.rs                                                           *)
(***************************************************************************)
ModulusInfo(degree, q, ntt) == [degree |-> degree, q |-> q, is_ntt_form |-> ntt]

Poly(coeffs, cq, mi) ==
  [panic |-> FALSE, coeffs |-> coeffs, cq |-> cq,
   degree |-> mi.degree, q |-> mi.q, is_ntt_form |-> mi.is_ntt_form]

modulus_info(p) == ModulusInfo(p.degree, p.q, p.is_ntt_form)

\* Polynomial::new on len coefficients (a function over 0..len-1) built with
\* modulus cq; the padding elements are built with mi.q, and every caller
\* that pads passes coefficients of that modulus
PolynomialNew(coeffs, len, cq, mi) ==
  IF len > mi.degree THEN Panic
  ELSE IF len < mi.degree
    THEN Poly(Force([i \in 0..mi.degree - 1 |->
                       IF i < len THEN coeffs[i] ELSE ZqNew(0, mi.q)]),
              cq, mi)
    ELSE Poly(coeffs, cq, mi)

PolynomialZero(mi) ==
  PolynomialNew([i \in 0..mi.degree - 1 |-> ZqNew(0, mi.q)], mi.degree, mi.q, mi)

\* a coefficient of compress without the rounding term q >> 1
CompressTruncating(x, q, p) == ZqNew(Quot(Pow2(p) * x, q), Pow2(p))

\* one coefficient of Polynomial::compress
CompressCoeff(x, q, p) == ZqNew(Quot(Pow2(p) * x + (q \div 2), q), Pow2(p))

\* Polynomial::compress
compress(poly, p) ==
  IF poly.panic THEN Panic
  ELSE [poly EXCEPT
          !.coeffs = Force([i \in 0..poly.degree - 1 |->
                              CompressCoeff(poly.coeffs[i], poly.q, p)]),
          !.cq = Pow2(p),
          !.q = Pow2(p)]

\* Polynomial::decompress
decompress(poly, q) ==
  IF poly.panic THEN Panic
  ELSE [poly EXCEPT
          !.coeffs = Force([i \in 0..poly.degree - 1 |->
                              ZqNew(Quot(q * poly.coeffs[i] + (poly.q \div 2), poly.q), q)]),
          !.cq = q,
          !.q = q]

PolyAdd(a, b) ==
  IF a.panic \/ b.panic THEN Panic
  ELSE IF a.q # b.q \/ a.degree # b.degree THEN Panic
  ELSE IF a.cq # b.cq THEN Panic
  ELSE [a EXCEPT !.coeffs =
          Force([i \in 0..a.degree - 1 |-> ZqAdd(a.coeffs[i], b.coeffs[i], a.cq)])]

PolySub(a, b) ==
  IF a.panic \/ b.panic THEN Panic
  ELSE IF a.q # b.q \/ a.degree # b.degree THEN Panic
  ELSE IF a.cq # b.cq THEN Panic
  ELSE [a EXCEPT !.coeffs =
          Force([i \in 0..a.degree - 1 |-> ZqSub(a.coeffs[i], b.coeffs[i], a.cq)])]

\* Polynomial::constant
PolynomialConstant(value, mi) ==
  [PolynomialZero(mi) EXCEPT !.coeffs[0] = ZqNew(value, mi.q)]

\* Neg for Polynomial
PolyNeg(a) ==
  IF a.panic THEN Panic
  ELSE [a EXCEPT !.coeffs = Force([i \in 0..a.degree - 1 |-> ZqNeg(a.coeffs[i], a.cq)])]

\* Polynomial::scalar_mul by a field element built with modulus sq
scalar_mul(a, scalar, sq) ==
  IF a.panic THEN Panic
  ELSE IF a.cq # sq THEN Panic
  ELSE [a EXCEPT !.coeffs = Force([i \in 0..a.degree - 1 |-> ZqMul(a.coeffs[i], scalar, a.cq)])]

\* Polynomial::high_bits: coeff / gamma2 on every coefficient
high_bits(p, gamma2) ==
  IF p.panic THEN Panic
  ELSE [p EXCEPT !.coeffs =
          Force([i \in 0..p.degree - 1 |-> ZqNew(Quot(p.coeffs[i], gamma2), p.q)]),
          !.cq = p.q]

\* the remainder coeff % gamma2, moved down by gamma2 when above gamma2 / 2
LowCentered(low, gamma2) == IF low > Quot(gamma2, 2) THEN low - gamma2 ELSE low

\* Polynomial::low_bits
low_bits(p, gamma2) ==
  IF p.panic THEN Panic
  ELSE [p EXCEPT !.coeffs =
          Force([i \in 0..p.degree - 1 |->
                   ZqNew(LowCentered(Rem(p.coeffs[i], gamma2), gamma2), p.q)]),
          !.cq = p.q]

\* One output slot of schoolbook_mul: the contributions of the outer indices
\* lo..hi arrive in order on the accumulator acc, each added and, on
\* wraparound, taken off twice.  (The range is split in two, and the left
\* half evaluated first, to keep the evaluation shallow; the order of the
\* steps is the loop's.)
RECURSIVE SchoolbookSlot(_, _, _, _, _, _, _, _)
\* result[idx] after "result[idx] = result[idx] + product" and, when wrapped,
\* "result[idx] = result[idx] - product - product"
SchoolbookStep(acc, product, wrapped, q) ==
  IF wrapped THEN ZqSub(ZqSub(ZqAdd(acc, product, q), product, q), product, q)
  ELSE ZqAdd(acc, product, q)

\* the steps of lo..hi applied to left, the result of the steps before them
SchoolbookRest(a, b, n, q, idx, left, lo, hi) ==
  IF left = left THEN SchoolbookSlot(a, b, n, q, idx, left, lo, hi) ELSE left

SchoolbookSlot(a, b, n, q, idx, acc, lo, hi) ==
  IF lo > hi THEN acc
  ELSE IF lo = hi
    THEN SchoolbookStep(acc, ZqMul(a[lo], b[(idx - lo) % n], q),
                        lo + ((idx - lo) % n) >= n, q)
  ELSE SchoolbookRest(a, b, n, q, idx,
                      SchoolbookSlot(a, b, n, q, idx, acc, lo, (lo + hi) \div 2),
                      (lo + hi) \div 2 + 1, hi)

schoolbook_mul(a, b) ==
  IF a.panic \/ b.panic THEN Panic
  ELSE IF a.q # b.q \/ a.degree # b.degree THEN Panic
  ELSE IF a.cq # b.cq \/ a.cq # a.q THEN Panic
  ELSE PolynomialNew(
         Force([k \in 0..a.degree - 1 |->
                  SchoolbookSlot(a.coeffs, b.coeffs, a.degree, a.q, k, ZqNew(0, a.q),
                                 0, a.degree - 1)]),
         a.degree, a.q, modulus_info(a))

(***************************************************************************)
(* ntt.rs                                                                  *)
(***************************************************************************)
\* the extended Euclid loop of mod_inverse, on (old_r, r, old_s, s); the
\* t-coefficients it also carries are never read
RECURSIVE mod_inverse_loop(_, _, _, _)
mod_inverse_loop(old_r, r, old_s, s) ==
  IF r = 0 THEN old_s
  ELSE LET quotient == Quot(old_r, r) IN
       mod_inverse_loop(r, old_r - quotient * r, s, old_s - quotient * s)

mod_inverse(a, m) ==
  LET old_s == mod_inverse_loop(a, m, 1, 0) IN
  IF old_s < 0 THEN old_s + m ELSE old_s

RECURSIVE mod_pow_loop(_, _, _, _)
mod_pow_loop(result, base, exp, modulus) ==
  IF exp = 0 THEN result
  ELSE mod_pow_loop(
         IF exp % 2 = 1 THEN Rem(MulTruncI32(result, base), modulus) ELSE result,
         Rem(MulTruncI32(base, base), modulus),
         exp \div 2, modulus)

mod_pow(base, exponent, modulus) == mod_pow_loop(1, Rem(base, modulus), exponent, modulus)

RECURSIVE bit_reverse_loop(_, _, _, _)
bit_reverse_loop(index, bits, i, reversed) ==
  IF i = bits THEN reversed
  ELSE bit_reverse_loop(index, bits, i + 1,
         reversed + ((index \div Pow2(i)) % 2) * Pow2(bits - 1 - i))

bit_reverse(index, bits) == bit_reverse_loop(index, bits, 0, 0)

precompute_roots(psi, n, q) ==
  LET log_n == trailing_zeros(n) IN
  Force([i \in 0..n - 1 |->
           LET j == bit_reverse(i, log_n)
               power == ((j * n) \div 2) % n
           IN mod_pow(psi, power, q)])

\* NTTParams::new; the Barrett factor and shift it also stores are read by no
\* transform
NTTParamsNew(q, n, psi) ==
  IF ~is_power_of_two(n) THEN Panic
  ELSE [panic |-> FALSE, q |-> q, n |-> n, psi |-> psi,
        n_inv |-> mod_inverse(n, q),
        roots_of_unity |-> precompute_roots(psi, n, q),
        inv_roots_of_unity |-> precompute_roots(mod_inverse(psi, q), n, q),
        bitrev |-> Force([i \in 0..n - 1 |-> bit_reverse(i, trailing_zeros(n))])]

\* the swap loop "if i < j { coeffs.swap(i, j) }" over all i
BitReversePermutation(c, params) ==
  Force([i \in 0..params.n - 1 |-> c[params.bitrev[i]]])

\* one pass of the Cooley-Tukey loop for a block length len
ForwardStage(c, len, params) ==
  LET half_len == len \div 2
      q == params.q
  IN Force([p \in 0..params.n - 1 |->
       LET i == p % len IN
       IF i < half_len
         THEN LET factor == ZqNew(params.roots_of_unity[half_len + i], q)
                  temp == ZqMul(c[p + half_len], factor, q)
              IN ZqAdd(c[p], temp, q)
         ELSE LET factor == ZqNew(params.roots_of_unity[i], q)
                  temp == ZqMul(c[p], factor, q)
              IN ZqSub(c[p - half_len], temp, q)])

RECURSIVE ForwardStages(_, _, _)
ForwardStages(c, len, params) ==
  IF len > params.n THEN c
  ELSE ForwardStages(ForwardStage(c, len, params), 2 * len, params)

butterfly_ntt(coeffs, params) ==
  ForwardStages(BitReversePermutation(coeffs, params), 2, params)

\* one pass of the Gentleman-Sande loop for a block length len
InverseStage(c, len, params) ==
  LET half_len == len \div 2
      q == params.q
  IN Force([p \in 0..params.n - 1 |->
       LET i == p % len IN
       IF i < half_len
         THEN ZqAdd(c[p], c[p + half_len], q)
         ELSE LET diff == ZqSub(c[p - half_len], c[p], q)
                  factor == ZqNew(params.inv_roots_of_unity[i], q)
              IN ZqMul(diff, factor, q)])

RECURSIVE InverseStages(_, _, _)
InverseStages(c, len, params) ==
  IF len < 2 THEN c
  ELSE InverseStages(InverseStage(c, len, params), len \div 2, params)

\* the coefficients left without their final scaling
Unscaled(c, params) == c

\* the last loop of butterfly_intt: coeffs[i] = coeffs[i] * n_inv
ScaleByNInv(c, params) ==
  Force([i \in 0..params.n - 1 |-> ZqMul(c[i], ZqNew(params.n_inv, params.q), params.q)])

butterfly_intt(coeffs, params) ==
  ScaleByNInv(BitReversePermutation(InverseStages(coeffs, params.n, params), params),
              params)

ntt_forward(poly, params) ==
  IF poly.panic \/ params.panic THEN Panic
  ELSE IF poly.degree # params.n \/ poly.q # params.q THEN Panic
  ELSE IF poly.cq # params.q THEN Panic
  ELSE Poly(butterfly_ntt(poly.coeffs, params), poly.cq,
            ModulusInfo(params.n, params.q, TRUE))

ntt_inverse(poly, params) ==
  IF poly.panic \/ params.panic THEN Panic
  ELSE IF ~poly.is_ntt_form THEN Panic
  ELSE IF poly.degree # params.n \/ poly.q # params.q THEN Panic
  ELSE IF poly.cq # params.q THEN Panic
  ELSE Poly(butterfly_intt(poly.coeffs, params), poly.cq,
            ModulusInfo(params.n, params.q, FALSE))

ntt_pointwise_mul(poly1, poly2) ==
  IF poly1.panic \/ poly2.panic THEN Panic
  ELSE IF ~(poly1.is_ntt_form /\ poly2.is_ntt_form) THEN Panic
  ELSE IF poly1.degree # poly2.degree \/ poly1.q # poly2.q THEN Panic
  ELSE IF poly1.cq # poly2.cq THEN Panic
  ELSE Poly(Force([i \in 0..poly1.degree - 1 |->
                     ZqMul(poly1.coeffs[i], poly2.coeffs[i], poly1.cq)]),
            poly1.cq, ModulusInfo(poly1.degree, poly1.q, TRUE))

ntt_polynomial_mul(poly1, poly2, params) ==
  IF poly1.panic \/ poly2.panic \/ params.panic THEN Panic
  ELSE IF poly1.degree # params.n \/ poly2.degree # params.n THEN Panic
  ELSE
    LET ntt_poly1 == IF poly1.is_ntt_form THEN poly1 ELSE ntt_forward(poly1, params)
        ntt_poly2 == IF poly2.is_ntt_form THEN poly2 ELSE ntt_forward(poly2, params)
        ntt_product == ntt_pointwise_mul(ntt_poly1, ntt_poly2)
    IN ntt_inverse(ntt_product, params)


(***************************************************************************)
(* hashing.rs and the sha3 crate.                                          *)
(*                                                                         *)
(* SHA3 and SHAKE are library code.  They are modelled by a keyed pair of  *)
(* position-weighted checksums of the input, expanded into an output       *)
(* stream whose every group of four bytes determines both checksums: a     *)
(* deterministic function of the input bytes, as the real ones are.        *)
(***************************************************************************)
Weight1(i) == ((i * i) + 3 * i + 7) % 65521

Weight2(i) == (7919 * i + 13) % 65519

\* sum over positions lo..hi of (byte + 1) * weight, by halving
RECURSIVE Checksum1(_, _, _)
Checksum1(data, lo, hi) ==
  IF lo > hi THEN 0
  ELSE IF lo = hi THEN ((data[lo] + 1) * Weight1(lo)) % 65521
  ELSE LET mid == (lo + hi) \div 2 IN
       (Checksum1(data, lo, mid) + Checksum1(data, mid + 1, hi)) % 65521

RECURSIVE Checksum2(_, _, _)
Checksum2(data, lo, hi) ==
  IF lo > hi THEN 0
  ELSE IF lo = hi THEN ((data[lo] + 1) * Weight2(lo)) % 65519
  ELSE LET mid == (lo + hi) \div 2 IN
       (Checksum2(data, lo, mid) + Checksum2(data, mid + 1, hi)) % 65519

\* the first output_len bytes squeezed from the absorbed state (m1, m2)
Squeeze(m1, m2, output_len) ==
  Force([t \in 1..output_len |->
       LET j == t - 1
           g == j \div 4
           w1 == (m1 + g * (2 * m2 + 1)) % 65536
           w2 == (m2 + g * (2 * m1 + 1)) % 65536
       IN CASE j % 4 = 0 -> w1 % 256
            [] j % 4 = 1 -> w1 \div 256
            [] j % 4 = 2 -> w2 % 256
            [] OTHER -> w2 \div 256])

\* output_len bytes of the sponge `alg` on `data`
SpongeStream(alg, data, output_len) ==
  Squeeze((Checksum1(data, 1, Len(data)) + 257 * alg + Len(data)) % 65521,
          (Checksum2(data, 1, Len(data)) + 263 * alg + Len(data)) % 65519,
          output_len)

shake128(data, output_len) == SpongeStream(1, data, output_len)

shake256(data, output_len) == SpongeStream(2, data, output_len)

sha3_256(data) == SpongeStream(3, data, 32)

\* u16::to_le_bytes
U16LeBytes(x) == <<x % 256, (x \div 256) % 256>>

prf(seed, nonce, len) == shake256(seed \o U16LeBytes(nonce), len)

\* (K, r_coins): the two halves of 64 bytes of SHAKE-256 over m || h_pk
SplitHash(hash) == [k |-> SubSeq(hash, 1, 32), r_coins |-> SubSeq(hash, 33, 64)]

hash_g(m, h_pk) == SplitHash(shake256(m \o h_pk, 64))

(***************************************************************************)
(* sampling.rs and the rand / rand_chacha crates.                          *)
(*                                                                         *)
(* ChaCha20Rng is library code: a deterministic bit source keyed by its    *)
(* 32-byte seed.  gen is the generator in use: 0 is the source whose every *)
(* draw is zero (each sampled polynomial is then the zero polynomial, one  *)
(* of the values the binomial sampler can return), the others mix the seed *)
(* with the draw's position.                                               *)
(***************************************************************************)
VARIABLE gen

RngState(seed_array) ==
  (Checksum1(seed_array, 1, 32) * 3 + Checksum2(seed_array, 1, 32)) % 65521

\* the t-th rng.gen::<bool>() of a generator seeded with state st
GenBool(g, st, t) ==
  IF g = 0 THEN 0
  ELSE (((st + g) * (2 * t + 1) + ((t * t) % 251) * 89) \div 8) % 2

\* the t-th rng.gen_range(0..3)
GenRange3(g, st, t) ==
  IF g = 0 THEN 1
  ELSE (((st + g) * (2 * t + 1) + ((t * t) % 251) * 89) \div 8) % 3

RECURSIVE BinomialBits(_, _, _, _, _)
\* a_bits - b_bits after eta rounds, the draws starting at position t
BinomialBits(g, st, t, eta, l) ==
  IF l = eta THEN 0
  ELSE GenBool(g, st, t + 2 * l) - GenBool(g, st, t + 2 * l + 1)
       + BinomialBits(g, st, t, eta, l + 1)

DivCeil(a, b) == (a + b - 1) \div b

\* the coefficients drawn from the generator in state st
SampleCoeffs(st, mi, eta) ==
  IF eta = 1
    THEN PolynomialNew(
           Force([c \in 0..mi.degree - 1 |->
                    LET r == GenRange3(gen, st, c) IN
                    ZqNew(IF r = 0 THEN -1 ELSE IF r = 1 THEN 0 ELSE 1, mi.q)]),
           mi.degree, mi.q, mi)
    ELSE PolynomialNew(
           Force([c \in 0..mi.degree - 1 |->
                    ZqNew(BinomialBits(gen, st, 2 * eta * c, eta, 0), mi.q)]),
           mi.degree, mi.q, mi)

\* seed_array: the first 32 of random_bytes, zeros after their end
SeedArray(random_bytes) ==
  Force([i \in 1..32 |-> IF i <= Len(random_bytes) THEN random_bytes[i] ELSE 0])

sample_poly_from_seed(seed, mi, eta) ==
  SampleCoeffs(RngState(SeedArray(prf(seed, 0, mi.degree * DivCeil(eta, 8)))), mi, eta)

\* positions.swap(i, j) with the second write left out
SwapLost(positions, i, j) == [positions EXCEPT ![i] = positions[j]]

\* positions.swap(i, j)
Swap(positions, i, j) == [positions EXCEPT ![i] = positions[j], ![j] = positions[i]]

RECURSIVE Shuffle(_, _, _, _, _)
\* the first loop of sample_challenge from round i on; draws[i + 1] is what
\* rng.gen_range(0..n - i) returned in round i
Shuffle(positions, i, tau, n, draws) ==
  IF i = tau \/ positions # positions THEN positions
  ELSE Shuffle(Swap(positions, i, i + draws[i + 1]), i + 1, tau, n, draws)

RECURSIVE SetSigns(_, _, _, _, _)
\* the second loop; bools[i + 1] is what rng.gen::<bool>() returned in round i
SetSigns(values, i, tau, positions, bools) ==
  IF i = tau \/ values # values THEN values
  ELSE SetSigns([values EXCEPT ![positions[i]] = IF bools[i + 1] THEN 1 ELSE -1],
                i + 1, tau, positions, bools)

ChallengeOf(values, mi) ==
  PolynomialNew(Force([c \in 0..mi.degree - 1 |-> ZqNew(values[c], mi.q)]),
                mi.degree, mi.q, mi)

\* sample_challenge for a generator that returns draws and then bools
sample_challenge(tau, mi, draws, bools) ==
  ChallengeOf(
    SetSigns([c \in 0..mi.degree - 1 |-> 0], 0, tau,
             Shuffle([c \in 0..mi.degree - 1 |-> c], 0, tau, mi.degree, draws), bools),
    mi)

\* the two bytes of every coefficient taken as they come, unreduced
ExpandCoeffsRaw(stream, mi) ==
  PolynomialNew(
    Force([c \in 0..mi.degree - 1 |-> stream[2 * c + 1] + 256 * stream[2 * c + 2]]),
    mi.degree, mi.q, mi)

\* the coefficients read from the SHAKE-128 stream: two bytes each, as a
\* little-endian u16 reduced mod q
ExpandCoeffs(stream, mi) ==
  PolynomialNew(
    Force([c \in 0..mi.degree - 1 |->
             ZqNew(Rem(stream[2 * c + 1] + 256 * stream[2 * c + 2], mi.q), mi.q)]),
    mi.degree, mi.q, mi)

expand_poly(rho, i, j, mi) ==
  ExpandCoeffs(shake128(rho \o <<i % 256, j % 256>>, 2 * mi.degree), mi)

\* rows 1..k of columns 1..l; the entry with the code's indices (i, j) is
\* expand_matrix(...)[i + 1][j + 1]
expand_matrix(rho, k, l, mi) ==
  [i \in 1..k |-> [j \in 1..l |-> expand_poly(rho, i - 1, j - 1, mi)]]


(***************************************************************************)
(* polynomial.rs: byte packing                                             *)
(***************************************************************************)
\* Polynomial::to_bytes: each coefficient little-endian in ceil(bits/8) bytes
to_bytes(poly, coeff_bits) ==
  LET coeff_bytes == (coeff_bits + 7) \div 8 IN
  Force([t \in 1..poly.degree * coeff_bytes |->
           (poly.coeffs[(t - 1) \div coeff_bytes] \div Pow2(8 * ((t - 1) % coeff_bytes))) % 256])

RECURSIVE ReadLe(_, _, _)
\* the or of bytes[offset + j] << 8j for j < coeff_bytes (offset from 0)
ReadLe(bytes, offset, coeff_bytes) ==
  IF coeff_bytes = 0 THEN 0
  ELSE ReadLe(bytes, offset, coeff_bytes - 1)
       + bytes[offset + coeff_bytes] * Pow2(8 * (coeff_bytes - 1))

\* Polynomial::from_bytes
from_bytes(bytes, mi, coeff_bits) ==
  LET n == mi.degree
      q == mi.q
      coeff_bytes == (coeff_bits + 7) \div 8
  IN IF Len(bytes) < n * coeff_bytes THEN PolynomialZero(mi)
     ELSE PolynomialNew(
            Force([i \in 0..n - 1 |->
                     ZqNew(ReadLe(bytes, i * coeff_bytes, coeff_bytes) % Pow2(coeff_bits), q)]),
            n, q, mi)

(***************************************************************************)
(* vector_matrix.rs                                                        *)
(***************************************************************************)
None == <<>>

Some(x) == <<x>>

\* the vector once its entries are evaluated
PolyVectorChecked(entries, mi) ==
  IF \E i \in 1..Len(entries) : entries[i].panic THEN Panic
  ELSE IF \E i \in 1..Len(entries) :
            entries[i].q # mi.q \/ entries[i].degree # mi.degree THEN Panic
  ELSE [panic |-> FALSE, entries |-> entries,
        degree |-> mi.degree, q |-> mi.q, is_ntt_form |-> mi.is_ntt_form]

PolyVectorNew(entries, mi) == PolyVectorChecked(Force(entries), mi)

\* a product that falls back to schoolbook_mul whenever the transform is not
\* wanted
InnerProductTermFallback(a, b, ntt_params, use_ntt) ==
  IF ntt_params # None /\ use_ntt
    THEN ntt_inverse(ntt_pointwise_mul(ntt_forward(a, ntt_params[1]),
                                       ntt_forward(b, ntt_params[1])),
                     ntt_params[1])
    ELSE schoolbook_mul(a, b)

\* the product of one pair of entries in inner_product
InnerProductTerm(a, b, ntt_params, use_ntt) ==
  IF ntt_params # None
    THEN IF use_ntt
           THEN ntt_inverse(ntt_pointwise_mul(ntt_forward(a, ntt_params[1]),
                                              ntt_forward(b, ntt_params[1])),
                            ntt_params[1])
           ELSE ntt_inverse(ntt_pointwise_mul(a, b), ntt_params[1])
    ELSE schoolbook_mul(a, b)

RECURSIVE InnerProductLoop(_, _, _, _)
\* result after the first i pairs
InnerProductLoop(self, other, ntt_params, i) ==
  IF i = 0 THEN PolynomialZero(modulus_info(self))
  ELSE PolyAdd(InnerProductLoop(self, other, ntt_params, i - 1),
               InnerProductTerm(self.entries[i], other.entries[i], ntt_params,
                                ~self.entries[1].is_ntt_form))

inner_product(self, other, ntt_params) ==
  IF self.panic \/ other.panic THEN Panic
  ELSE IF Len(self.entries) # Len(other.entries) \/ self.q # other.q THEN Panic
  ELSE IF Len(self.entries) = 0 THEN PolynomialZero(modulus_info(self))
  ELSE InnerProductLoop(self, other, ntt_params, Len(self.entries))

\* the matrix once its rows are evaluated
PolyMatrixChecked(rows, n_rows, n_cols, mi) ==
  IF \E i \in 1..Len(rows) : rows[i].panic THEN Panic
  ELSE IF Len(rows) # n_rows THEN Panic
  ELSE IF \E i \in 1..Len(rows) : Len(rows[i].entries) # n_cols \/ rows[i].q # mi.q
    THEN Panic
  ELSE [panic |-> FALSE, rows |-> rows, n_rows |-> n_rows, n_cols |-> n_cols,
        degree |-> mi.degree, q |-> mi.q, is_ntt_form |-> mi.is_ntt_form]

PolyMatrixNew(rows, n_rows, n_cols, mi) ==
  PolyMatrixChecked(Force(rows), n_rows, n_cols, mi)

mul_vec(self, vec, ntt_params) ==
  IF self.panic \/ vec.panic THEN Panic
  ELSE IF self.n_cols # Len(vec.entries) \/ self.q # vec.q THEN Panic
  ELSE PolyVectorNew([i \in 1..self.n_rows |-> inner_product(self.rows[i], vec, ntt_params)],
                     modulus_info(self))

\* the entries of a vector sum or difference, once evaluated
WithEntries(self, entries) ==
  IF \E i \in 1..Len(entries) : entries[i].panic THEN Panic
  ELSE [self EXCEPT !.entries = entries]

\* Add for PolyVector
PolyVectorAdd(self, other) ==
  IF self.panic \/ other.panic THEN Panic
  ELSE IF Len(self.entries) # Len(other.entries) \/ self.q # other.q THEN Panic
  ELSE WithEntries(self, Force([i \in 1..Len(self.entries) |->
                                  PolyAdd(self.entries[i], other.entries[i])]))

\* Sub for PolyVector
PolyVectorSub(self, other) ==
  IF self.panic \/ other.panic THEN Panic
  ELSE IF Len(self.entries) # Len(other.entries) \/ self.q # other.q THEN Panic
  ELSE WithEntries(self, Force([i \in 1..Len(self.entries) |->
                                  PolySub(self.entries[i], other.entries[i])]))

\* column j of other, as mul_mat builds it
Column(self, other, j) ==
  PolyVectorNew([k \in 1..other.n_rows |-> other.rows[k].entries[j]], modulus_info(self))

mul_mat(self, other, ntt_params) ==
  IF self.panic \/ other.panic THEN Panic
  ELSE IF self.n_cols # other.n_rows \/ self.q # other.q THEN Panic
  ELSE PolyMatrixNew(
         [i \in 1..self.n_rows |->
            PolyVectorNew([j \in 1..other.n_cols |->
                             inner_product(self.rows[i], Column(self, other, j), ntt_params)],
                          modulus_info(self))],
         self.n_rows, other.n_cols, modulus_info(self))

(***************************************************************************)
(* kyber-ml-kem/src/params.rs                                              *)
(***************************************************************************)
SecurityLevels == {"Kyber512", "Kyber768", "Kyber1024"}

LevelK(level) ==
  CASE level = "Kyber512" -> 2 [] level = "Kyber768" -> 3 [] level = "Kyber1024" -> 4

LevelEta1(level) ==
  CASE level = "Kyber512" -> 3 [] level = "Kyber768" -> 2 [] level = "Kyber1024" -> 2

LevelEta2(level) ==
  CASE level = "Kyber512" -> 2 [] level = "Kyber768" -> 2 [] level = "Kyber1024" -> 2

poly_modulus == ModulusInfo(N, Q, FALSE)

poly_modulus_ntt == ModulusInfo(N, Q, TRUE)

public_key_bytes(level) == SEED_BYTES + (LevelK(level) * N * 12) \div 8

secret_key_cpa_bytes(level) == (LevelK(level) * N * 12) \div 8

secret_key_kem_bytes(level) ==
  secret_key_cpa_bytes(level) + public_key_bytes(level) + SEED_BYTES + SEED_BYTES

ciphertext_bytes(level) == (LevelK(level) * N * DU) \div 8 + (N * DV) \div 8

(***************************************************************************)
(* kyber-ml-kem/src/cpa.rs                                                 *)
(***************************************************************************)
get_ntt_params == NTTParamsNew(Q, N, KyberPsi)

CpaPublicKey(rho, t_hat, level) ==
  IF t_hat.panic THEN Panic
  ELSE [panic |-> FALSE, rho |-> rho, t_hat |-> t_hat, security_level |-> level]

CpaSecretKey(s_hat, level) ==
  IF s_hat.panic THEN Panic
  ELSE [panic |-> FALSE, s_hat |-> s_hat, security_level |-> level]

Ciphertext(u, v) ==
  IF u.panic \/ v.panic THEN Panic
  ELSE [panic |-> FALSE, u |-> u, v |-> v]

\* decode_message: bit j of byte i becomes coefficient 8i + j, 0 or q/2
decode_message(msg, mi) ==
  LET n == mi.degree
      q == mi.q
      q_half == Quot(q, 2)
      len == IF n < 256 THEN n ELSE 256
  IN PolynomialNew(
       Force([c \in 0..n - 1 |->
                IF c < len
                  THEN LET bit == (msg[(c \div 8) + 1] \div Pow2(c % 8)) % 2 IN
                       ZqNew(IF bit = 1 THEN q_half ELSE 0, q)
                  ELSE ZqNew(0, q)]),
       n, q, mi)

\* a bit read as set only above q/2
AboveHalf(coeff, q) == IF coeff > Quot(q, 2) THEN 1 ELSE 0

\* one bit of encode_message
EncodeBit(coeff, q) ==
  LET q_quarter == Quot(q, 4)
      three_q_quarter == Quot(3 * q, 4)
  IN IF coeff > q_quarter /\ coeff < three_q_quarter THEN 1 ELSE 0

RECURSIVE EncodeByte(_, _, _)
\* the bits i % 8 < b of byte number `byte` (from 0)
EncodeByte(poly, byte, b) ==
  IF b = 0 THEN 0
  ELSE LET i == 8 * byte + b - 1 IN
       EncodeByte(poly, byte, b - 1)
       + (IF i < poly.degree THEN EncodeBit(poly.coeffs[i], poly.q) * Pow2(b - 1) ELSE 0)

encode_message(poly) ==
  Force([t \in 1..32 |-> EncodeByte(poly, t - 1, 8)])

compress_poly(poly, bits) ==
  IF poly.panic THEN Panic
  ELSE
    LET q == poly.q
        mod_size == Pow2(bits)
    IN PolynomialNew(
         Force([i \in 0..poly.degree - 1 |->
                  ZqNew(Rem(Quot(mod_size * poly.coeffs[i] + (q \div 2), q), mod_size),
                        mod_size)]),
         poly.degree, mod_size, ModulusInfo(poly.degree, mod_size, poly.is_ntt_form))

compress_vector(vec, bits) ==
  IF vec.panic THEN Panic
  ELSE PolyVectorNew([i \in 1..Len(vec.entries) |-> compress_poly(vec.entries[i], bits)],
                     ModulusInfo(vec.degree, Pow2(bits), vec.is_ntt_form))

decompress_poly(poly, bits, q_target) ==
  IF poly.panic THEN Panic
  ELSE
    LET p == poly.q IN
    PolynomialNew(
      Force([i \in 0..poly.degree - 1 |->
               ZqNew(Quot(q_target * poly.coeffs[i] + (p \div 2), p), q_target)]),
      poly.degree, q_target, ModulusInfo(poly.degree, q_target, poly.is_ntt_form))

decompress_vector(vec, bits, q_target) ==
  IF vec.panic THEN Panic
  ELSE PolyVectorNew(
         [i \in 1..Len(vec.entries) |-> decompress_poly(vec.entries[i], bits, q_target)],
         ModulusInfo(vec.degree, q_target, vec.is_ntt_form))

\* the loops that expand A and bring each entry to the NTT domain; with
\* `transposed` the entry (i, j) is taken from A[j][i], as encrypt does
NttMatrix(a_matrix, k, transposed) ==
  PolyMatrixNew(
    [i \in 1..k |->
       PolyVectorNew(
         [j \in 1..k |->
            ntt_forward(IF transposed THEN a_matrix[j][i] ELSE a_matrix[i][j],
                        get_ntt_params)],
         poly_modulus_ntt)],
    k, k, poly_modulus_ntt)

\* the loops that sample k noise polynomials from PRF(seed, first_nonce + i)
SampleVector(seed, k, first_nonce, eta) ==
  PolyVectorNew(
    [i \in 1..k |->
       sample_poly_from_seed(prf(seed, first_nonce + i - 1, 32), poly_modulus, eta)],
    poly_modulus)

\* the loops that bring the first k entries of a vector to the NTT domain
NttVector(vec, k) ==
  IF vec.panic THEN Panic
  ELSE IF Len(vec.entries) < k THEN Panic
  ELSE PolyVectorNew([i \in 1..k |-> ntt_forward(vec.entries[i], get_ntt_params)],
                     poly_modulus_ntt)

\* the loops that bring the first k entries back to the standard domain
InttVector(vec, k) ==
  IF vec.panic THEN Panic
  ELSE IF Len(vec.entries) < k THEN Panic
  ELSE PolyVectorNew([i \in 1..k |-> ntt_inverse(vec.entries[i], get_ntt_params)],
                     poly_modulus)

\* the loops that add two vectors entry by entry
AddVectors(a, b, k, mi) ==
  IF a.panic \/ b.panic THEN Panic
  ELSE IF Len(a.entries) < k \/ Len(b.entries) < k THEN Panic
  ELSE PolyVectorNew([i \in 1..k |-> PolyAdd(a.entries[i], b.entries[i])], mi)

\* cpa::keygen from A-hat, s-hat and e-hat on
KeygenKeys(security_level, rho, a_hat, s_hat, e_hat) ==
  [pk |-> CpaPublicKey(rho,
                       AddVectors(mul_vec(a_hat, s_hat, Some(get_ntt_params)), e_hat,
                                  LevelK(security_level), poly_modulus_ntt),
                       security_level),
   sk |-> CpaSecretKey(s_hat, security_level)]

\* cpa::keygen, the two seeds it draws from OsRng given
cpa_keygen(security_level, rho, sigma) ==
  KeygenKeys(security_level, rho,
             NttMatrix(expand_matrix(rho, LevelK(security_level), LevelK(security_level),
                                     poly_modulus),
                       LevelK(security_level), FALSE),
             NttVector(SampleVector(sigma, LevelK(security_level), 0,
                                    LevelEta1(security_level)),
                       LevelK(security_level)),
             NttVector(SampleVector(sigma, LevelK(security_level), LevelK(security_level),
                                    LevelEta1(security_level)),
                       LevelK(security_level)))

\* the sum over i of a[i] * b[i], pointwise, from the zero polynomial
RECURSIVE PointwiseSum(_, _, _)
PointwiseSum(a, b, i) ==
  IF i = 0 THEN PolynomialZero(poly_modulus_ntt)
  ELSE PolyAdd(PointwiseSum(a, b, i - 1), ntt_pointwise_mul(a.entries[i], b.entries[i]))

\* the loop computing t-hat^T r-hat (encrypt) or s-hat^T u-hat (decrypt)
PointwiseInner(a, b, k) ==
  IF a.panic \/ b.panic THEN Panic
  ELSE IF Len(a.entries) < k \/ Len(b.entries) < k THEN Panic
  ELSE PointwiseSum(a, b, k)

\* cpa::encrypt from the sampled and transformed operands on
EncryptParts(pk, k, m, a_t_hat, r_hat, e1, e2) ==
  Ciphertext(
    compress_vector(
      AddVectors(InttVector(mul_vec(a_t_hat, r_hat, Some(get_ntt_params)), k), e1,
                 k, poly_modulus),
      DU),
    compress_poly(
      PolyAdd(PolyAdd(ntt_inverse(PointwiseInner(pk.t_hat, r_hat, k), get_ntt_params), e2),
              m),
      DV))

cpa_encrypt(pk, msg, coins) ==
  IF pk.panic THEN Panic
  ELSE EncryptParts(
         pk, LevelK(pk.security_level),
         decode_message(msg, poly_modulus),
         NttMatrix(expand_matrix(pk.rho, LevelK(pk.security_level),
                                 LevelK(pk.security_level), poly_modulus),
                   LevelK(pk.security_level), TRUE),
         NttVector(SampleVector(coins, LevelK(pk.security_level), 0,
                                LevelEta1(pk.security_level)),
                   LevelK(pk.security_level)),
         SampleVector(coins, LevelK(pk.security_level), LevelK(pk.security_level),
                      LevelEta2(pk.security_level)),
         sample_poly_from_seed(prf(coins, 2 * LevelK(pk.security_level), 32),
                               poly_modulus, LevelEta2(pk.security_level)))

\* the message bytes of cpa::decrypt, or the panic that replaced them
DecryptedMessage(mp) ==
  IF mp.panic THEN Panic ELSE [panic |-> FALSE, msg |-> encode_message(mp)]

cpa_decrypt(sk, ciphertext) ==
  IF sk.panic \/ ciphertext.panic THEN Panic
  ELSE DecryptedMessage(
         PolySub(decompress_poly(ciphertext.v, DV, Q),
                 ntt_inverse(
                   PointwiseInner(sk.s_hat,
                                  NttVector(decompress_vector(ciphertext.u, DU, Q),
                                            LevelK(sk.security_level)),
                                  LevelK(sk.security_level)),
                   get_ntt_params)))


\* a Vec<u8> result, or the panic that replaced it
Bytes(b) == [panic |-> FALSE, bytes |-> b]

\* &bytes[lo..hi] (offsets from 0, hi exclusive); Rust panics past the end
SliceInRange(bytes, lo, hi) == lo <= hi /\ hi <= Len(bytes)

Slice(bytes, lo, hi) == SubSeq(bytes, lo + 1, hi)

\* the standard-domain copy both key writers serialize
StdPoly(poly) ==
  IF poly.panic THEN Panic
  ELSE IF poly.is_ntt_form THEN ntt_inverse(poly, get_ntt_params) ELSE poly

\* acc extended by one compressed polynomial written with to_bytes(12)
AppendPoly(acc, compressed) ==
  IF acc.panic \/ compressed.panic THEN Panic
  ELSE Bytes(acc.bytes \o to_bytes(compressed, PkCoeffBits))

RECURSIVE PackEntries(_, _, _)
\* acc followed by the bytes of the entries i.., each compressed to 12 bits
PackEntries(entries, i, acc) ==
  IF acc.panic THEN Panic
  ELSE IF i > Len(entries) THEN acc
  ELSE PackEntries(entries, i + 1,
                   AppendPoly(acc, compress_poly(StdPoly(entries[i]), PkCoeffBits)))

pk_to_bytes(pk) ==
  IF pk.panic THEN Panic
  ELSE PackEntries(pk.t_hat.entries, 1, Bytes(pk.rho))

\* one polynomial of a key, read as the readers of pk and sk read it
UnpackKeyPoly(bytes, offset, bytes_per_poly) ==
  IF ~SliceInRange(bytes, offset, offset + bytes_per_poly) THEN Panic
  ELSE
    LET poly_bytes == Slice(bytes, offset, offset + bytes_per_poly)
        poly_12bit == from_bytes(poly_bytes, ModulusInfo(N, Pow2(12), FALSE), PkCoeffBits)
        poly_q == decompress_poly(poly_12bit, 12, Q)
    IN ntt_forward(poly_q, get_ntt_params)

pk_from_bytes(bytes, security_level) ==
  LET k == LevelK(security_level)
      bytes_per_poly == (N * 12) \div 8
  IN IF ~SliceInRange(bytes, 0, 32) THEN Panic
     ELSE
       LET rho == Slice(bytes, 0, 32)
           t_hat_entries ==
             [i \in 1..k |-> UnpackKeyPoly(bytes, 32 + (i - 1) * bytes_per_poly, bytes_per_poly)]
       IN CpaPublicKey(rho, PolyVectorNew(t_hat_entries, poly_modulus_ntt), security_level)

sk_to_bytes(sk) ==
  IF sk.panic THEN Panic
  ELSE PackEntries(sk.s_hat.entries, 1, Bytes(<<>>))

sk_from_bytes(bytes, security_level) ==
  LET k == LevelK(security_level)
      bytes_per_poly == (N * 12) \div 8
      s_hat_entries ==
        [i \in 1..k |-> UnpackKeyPoly(bytes, (i - 1) * bytes_per_poly, bytes_per_poly)]
  IN CpaSecretKey(PolyVectorNew(s_hat_entries, poly_modulus_ntt), security_level)

RECURSIVE ConcatToBytes(_, _, _)
\* to_bytes(bits) of entries i.. appended in order
ConcatToBytes(entries, i, bits) ==
  IF i > Len(entries) THEN <<>>
  ELSE to_bytes(entries[i], bits) \o ConcatToBytes(entries, i + 1, bits)

ciphertext_to_bytes(ct) ==
  IF ct.panic THEN Panic
  ELSE Bytes(ConcatToBytes(ct.u.entries, 1, DU) \o to_bytes(ct.v, DV))

\* a length guard that lets the input be one byte short
TooShortByTwo(len, expected_size) == len + 1 < expected_size

\* a length guard that accepts every input
NeverTooShort(len, expected_size) == FALSE

\* the guard of ciphertext_from_bytes on the input's length
TooShort(len, expected_size) == len < expected_size

ciphertext_from_bytes(bytes, security_level) ==
  LET k == LevelK(security_level)
      modulus_info_u == ModulusInfo(N, Pow2(DU), FALSE)
      modulus_info_v == ModulusInfo(N, Pow2(DV), FALSE)
      bytes_per_u_poly == (N * DU) \div 8
      total_u_bytes == k * bytes_per_u_poly
      bytes_per_v_poly == (N * DV) \div 8
      expected_size == total_u_bytes + bytes_per_v_poly
  IN IF TooShort(Len(bytes), expected_size)
       THEN Ciphertext(PolyVectorNew([i \in 1..k |-> PolynomialZero(modulus_info_u)],
                                     modulus_info_u),
                       PolynomialZero(modulus_info_v))
       ELSE
         LET u_entries ==
               [i \in 1..k |->
                  LET offset == (i - 1) * bytes_per_u_poly IN
                  IF ~SliceInRange(bytes, offset, offset + bytes_per_u_poly) THEN Panic
                  ELSE from_bytes(Slice(bytes, offset, offset + bytes_per_u_poly),
                                  modulus_info_u, DU)]
             v_offset == k * bytes_per_u_poly
             v == IF ~SliceInRange(bytes, v_offset, v_offset + bytes_per_v_poly) THEN Panic
                  ELSE from_bytes(Slice(bytes, v_offset, v_offset + bytes_per_v_poly),
                                  modulus_info_v, DV)
         IN Ciphertext(PolyVectorNew(u_entries, modulus_info_u), v)

(***************************************************************************)
(* kyber-ml-kem/src/kem.rs                                                 *)
(***************************************************************************)
\* a ^ b on bytes
RECURSIVE Xor8(_, _, _)
Xor8(a, b, bits) ==
  IF bits = 0 THEN 0
  ELSE ((a + b) % 2) + 2 * Xor8(a \div 2, b \div 2, bits - 1)

\* a | b on bytes
RECURSIVE Or8(_, _, _)
Or8(a, b, bits) ==
  IF bits = 0 THEN 0
  ELSE (IF a % 2 = 1 \/ b % 2 = 1 THEN 1 ELSE 0) + 2 * Or8(a \div 2, b \div 2, bits - 1)

RECURSIVE CompareFold(_, _, _, _, _)
\* the fold continued over lo..hi once the result so far is evaluated
CompareRest(a, b, left, lo, hi) ==
  IF left = left THEN CompareFold(a, b, left, lo, hi) ELSE left

\* result after result |= a[i] ^ b[i] for i from lo to hi in order (the
\* range is split in two to keep the evaluation shallow)
CompareFold(a, b, result, lo, hi) ==
  IF lo > hi THEN result
  ELSE IF lo = hi THEN Or8(result, Xor8(a[lo], b[lo], 8), 8)
  ELSE CompareRest(a, b, CompareFold(a, b, result, lo, (lo + hi) \div 2),
                   (lo + hi) \div 2 + 1, hi)

\* a comparison that looks at the two lengths only
length_only_compare(a, b) == Len(a) = Len(b)

constant_time_compare(a, b) ==
  IF Len(a) # Len(b) THEN FALSE
  ELSE CompareFold(a, b, 0, 1, Len(a)) = 0

KemPublicKey(pk) == IF pk.panic THEN Panic ELSE [panic |-> FALSE, pk |-> pk]

KemSecretKey(sk, pk, h_pk, z) ==
  IF sk.panic \/ pk.panic THEN Panic
  ELSE [panic |-> FALSE, sk |-> sk, pk |-> pk, h_pk |-> h_pk, z |-> z]

\* kem::keygen from the CPA key pair and the serialized public key on
KemKeys(cpa, pk_bytes, z) ==
  IF pk_bytes.panic THEN [pk |-> Panic, sk |-> Panic]
  ELSE [pk |-> KemPublicKey(cpa.pk),
        sk |-> KemSecretKey(cpa.sk, cpa.pk, sha3_256(pk_bytes.bytes), z)]

\* kem::keygen from the CPA key pair on
KemKeysOf(cpa, z) == KemKeys(cpa, pk_to_bytes(cpa.pk), z)

\* kem::keygen, the three 32-byte draws from OsRng given
kem_keygen(security_level, rho, sigma, z) ==
  KemKeysOf(cpa_keygen(security_level, rho, sigma), z)

\* the Encapsulation built from (K, r) = G(m, h_pk) and the ciphertext
Encapsulation(g, ciphertext) ==
  IF ciphertext.panic THEN Panic
  ELSE [panic |-> FALSE, shared_secret |-> g.k, ciphertext |-> ciphertext]

\* kem::encaps from (K, r) = G(m, h_pk) on
EncapsWith(pk, m, g) == Encapsulation(g, cpa_encrypt(pk.pk, m, g.r_coins))

\* kem::encaps from the serialized public key on
EncapsHashed(pk, m, pk_bytes) ==
  IF pk_bytes.panic THEN Panic
  ELSE EncapsWith(pk, m, hash_g(m, sha3_256(pk_bytes.bytes)))

\* kem::encaps, the draw m from OsRng given
encaps(pk, m) ==
  IF pk.panic THEN Panic
  ELSE EncapsHashed(pk, m, pk_to_bytes(pk.pk))

\* kem::decaps from the two serialized ciphertexts on; the record keeps the
\* locals next to the returned key `out`
DecapsSelect(sk, m_prime, g, ct_bytes, ct_prime_bytes) ==
  IF ct_bytes.panic \/ ct_prime_bytes.panic THEN Panic
  ELSE [panic |-> FALSE, m_prime |-> m_prime, k_prime |-> g.k,
        ct_bytes |-> ct_bytes.bytes, ct_prime_bytes |-> ct_prime_bytes.bytes,
        out |-> IF constant_time_compare(ct_bytes.bytes, ct_prime_bytes.bytes)
                  THEN g.k
                  ELSE sha3_256(sk.z \o ct_bytes.bytes)]

\* a decaps whose re-encryption is of K' instead of m'
DecapsWithOtherInput(sk, ciphertext, m_prime, g) ==
  DecapsSelect(sk, m_prime, g, ciphertext_to_bytes(ciphertext),
               ciphertext_to_bytes(cpa_encrypt(sk.pk, g.k, g.r_coins)))

\* kem::decaps from (K', r') = G(m', h_pk) on
DecapsWith(sk, ciphertext, m_prime, g) ==
  DecapsSelect(sk, m_prime, g, ciphertext_to_bytes(ciphertext),
               ciphertext_to_bytes(cpa_encrypt(sk.pk, m_prime, g.r_coins)))

\* kem::decaps from the decrypted m' on
DecapsDecrypted(sk, ciphertext, decrypted) ==
  IF decrypted.panic THEN Panic
  ELSE DecapsWith(sk, ciphertext, decrypted.msg, hash_g(decrypted.msg, sk.h_pk))

decaps(sk, ciphertext) ==
  IF sk.panic \/ ciphertext.panic THEN Panic
  ELSE DecapsDecrypted(sk, ciphertext, cpa_decrypt(sk.sk, ciphertext))

\* the four parts of kem::sk_to_bytes in order
KemSkBytes(sk, sk_cpa_bytes, pk_bytes) ==
  IF sk_cpa_bytes.panic \/ pk_bytes.panic THEN Panic
  ELSE Bytes(sk_cpa_bytes.bytes \o pk_bytes.bytes \o sk.h_pk \o sk.z)

kem_sk_to_bytes(sk) ==
  IF sk.panic THEN Panic
  ELSE KemSkBytes(sk, sk_to_bytes(sk.sk), pk_to_bytes(sk.pk))

\* kem::sk_from_bytes from the two deserialized CPA keys on
KemSkParts(bytes, sk, pk, h_pk_offset, z_offset) ==
  IF sk.panic \/ pk.panic THEN Panic
  ELSE IF ~SliceInRange(bytes, h_pk_offset, h_pk_offset + 32) THEN Panic
  ELSE IF ~SliceInRange(bytes, z_offset, z_offset + 32) THEN Panic
  ELSE KemSecretKey(sk, pk, Slice(bytes, h_pk_offset, h_pk_offset + 32),
                    Slice(bytes, z_offset, z_offset + 32))

kem_sk_from_bytes(bytes, security_level) ==
  LET sk_cpa_size == secret_key_cpa_bytes(security_level)
      pk_size == public_key_bytes(security_level)
      h_pk_offset == sk_cpa_size + pk_size
      z_offset == h_pk_offset + 32
  IN IF ~SliceInRange(bytes, 0, sk_cpa_size) THEN Panic
     ELSE IF ~SliceInRange(bytes, sk_cpa_size, sk_cpa_size + pk_size) THEN Panic
     ELSE KemSkParts(bytes,
                     sk_from_bytes(Slice(bytes, 0, sk_cpa_size), security_level),
                     pk_from_bytes(Slice(bytes, sk_cpa_size, sk_cpa_size + pk_size),
                                   security_level),
                     h_pk_offset, z_offset)


(***************************************************************************)
(* The callers of the library: one key pair, then one of three uses of it  *)
(* (the KEM exchange of kem.rs's tests, the CPA exchange and the key       *)
(* storage of cpa.rs's tests).  Every result a caller holds is a slot that *)
(* is None until the call that fills it has returned.                      *)
(***************************************************************************)
VARIABLES
  session,      \* "new", "kem", "cpa" or "keys": what the key pair is used for
  level,        \* the SecurityLevel passed to keygen and to the readers
  pk,           \* kem::PublicKey
  sk,           \* kem::SecretKey
  enc,          \* the Encapsulation returned by encaps
  wire,         \* ciphertext bytes in transit
  wire_kind,    \* "none", "honest", "flipped", "cut" or "forged"
  ct_in,        \* the Ciphertext handed to decaps
  ct_src,       \* "none", "direct" (the object itself) or "wire" (deserialized)
  dec,          \* decaps(sk, ct_in)
  sk_loaded,    \* kem::sk_from_bytes(kem::sk_to_bytes(sk))
  dec_loaded,   \* decaps(sk_loaded, ct_in)
  cpa_msg,      \* the msg given to cpa::encrypt
  cpa_ct,       \* cpa::encrypt(pk, msg, coins)
  cpa_out,      \* cpa::decrypt(sk, cpa_ct)
  pk_stored,    \* cpa::pk_from_bytes(cpa::pk_to_bytes(pk))
  sk_stored     \* cpa::sk_from_bytes(cpa::sk_to_bytes(sk))

kem_vars == <<session, level, pk, sk, enc, wire, wire_kind, ct_in, ct_src, dec,
              sk_loaded, dec_loaded, cpa_msg, cpa_ct, cpa_out, pk_stored, sk_stored>>

\* the generators tried: 0..MaxGen
MaxGen == 1

\* key generation draws its seeds from a pool of MaxSeed triples
MaxSeed == 1

\* encaps and encrypt draw m, msg and coins from a pool of MaxMsg strings
MaxMsg == 1

\* 32 bytes from OsRng, the i-th string of the pool
Entropy(i) == [t \in 1..32 |-> (i * 37 + t * 11 + i * i * t) % 256]

\* the flips tried on serialized bytes: the first byte's low bit (the flip
\* of test_kem_failure_case) and every bit of the last byte
Flips(bytes) == {<<0, 1>>, <<Len(bytes) - 1, 255>>}

\* the lengths serialized bytes are cut to: nothing, and one byte less than
\* the reader expects
CutLengths(l) == {0, ciphertext_bytes(l) - 1}

\* the lengths of forged bytes: just what the reader expects
ForgedLengths(l) == {ciphertext_bytes(l)}

\* forged bytes: any content
Forged(len, fill) == [t \in 1..len |-> (fill * t + 5 * fill) % 256]

(***************************************************************************)
(* The callers of ntt.rs and of Polynomial::schoolbook_mul, as in the      *)
(* tests of ntt.rs: two polynomials over one parameter set, multiplied.    *)
(***************************************************************************)
VARIABLES
  ntt_params,   \* the NTTParams in use
  poly_p,       \* the first operand
  poly_r,       \* the second operand
  prod_ntt,     \* ntt_polynomial_mul(&poly_p, &poly_r, &ntt_params)
  prod_school,  \* poly_p.schoolbook_mul(&poly_r)
  rt_src,       \* the polynomial handed to ntt_forward
  rt_back       \* ntt_inverse(&ntt_forward(&rt_src, &ntt_params), &ntt_params)

ntt_vars == <<ntt_params, poly_p, poly_r, prod_ntt, prod_school, rt_src, rt_back>>

(***************************************************************************)
(* The state of a caller of lattice-core alone: one call at a time, with   *)
(* its arguments and what it returned.                                     *)
(***************************************************************************)
VARIABLES
  zq_q,      \* the modulus of the field elements in use
  zq_a,      \* a ZqElement of modulus zq_q (its value), kept across calls
  zq_b,      \* a second one
  zq_call,   \* the last call on field elements: its name and arguments
  zq_ret,    \* what that call returned
  zq_n,      \* the number of operator calls made
  lib_in,    \* the arguments drawn for one call of a function of the library
  lib_out,   \* what the call returned
  cmp        \* two runs of constant_time_compare, each with its arguments, its
             \* position, its locals and the steps it has taken

\* what a call returned: a value, an Option of one (inverse), or an abort
Returned(value) == [panic |-> FALSE, value |-> value]

Aborted == [panic |-> TRUE, value |-> None]

NoCall == [op |-> "none", a |-> 0, b |-> 0]

zq_vars == <<zq_q, zq_a, zq_b, zq_call, zq_ret, zq_n>>

NoInput == [kind |-> "none"]

lib_vars == <<zq_vars, lib_in, lib_out, cmp>>

vars == <<gen, kem_vars, ntt_vars, lib_vars>>

\* the readers applied to what the writers returned
KemSkReadBack(sk_bytes, security_level) ==
  IF sk_bytes.panic THEN Panic ELSE kem_sk_from_bytes(sk_bytes.bytes, security_level)

PkReadBack(pk_bytes, security_level) ==
  IF pk_bytes.panic THEN Panic ELSE pk_from_bytes(pk_bytes.bytes, security_level)

SkReadBack(sk_bytes, security_level) ==
  IF sk_bytes.panic THEN Panic ELSE sk_from_bytes(sk_bytes.bytes, security_level)

KemIdle ==
  /\ session = "new"
  /\ level = None
  /\ pk = None /\ sk = None /\ enc = None
  /\ wire = None /\ wire_kind = "none"
  /\ ct_in = None /\ ct_src = "none"
  /\ dec = None /\ sk_loaded = None /\ dec_loaded = None
  /\ cpa_msg = None /\ cpa_ct = None /\ cpa_out = None
  /\ pk_stored = None /\ sk_stored = None

\* (pk, sk) = kem::keygen(security_level)
KeyGen(security_level, s) ==
  /\ pk = None
  /\ \E kp \in {kem_keygen(security_level, Entropy(3 * s - 2), Entropy(3 * s - 1),
                             Entropy(3 * s))} :
       /\ pk' = Some(kp.pk)
       /\ sk' = Some(kp.sk)
  /\ level' = Some(security_level)
  /\ UNCHANGED <<lib_vars, ntt_vars, gen, session, enc, wire, wire_kind, ct_in, ct_src, dec, sk_loaded,
                 dec_loaded, cpa_msg, cpa_ct, cpa_out, pk_stored, sk_stored>>

\* enc = kem::encaps(&pk)
Encaps(i) ==
  /\ pk # None /\ enc = None /\ wire = None
  /\ session \in {"new", "kem"}
  /\ enc' = Some(encaps(pk[1], Entropy(100 + i)))
  /\ session' = "kem"
  /\ UNCHANGED <<lib_vars, ntt_vars, gen, level, pk, sk, wire, wire_kind, ct_in, ct_src, dec, sk_loaded,
                 dec_loaded, cpa_msg, cpa_ct, cpa_out, pk_stored, sk_stored>>

\* the receiver is handed encaps.ciphertext itself
Deliver ==
  /\ enc # None /\ ~enc[1].panic
  /\ wire = None /\ ct_in = None
  /\ ct_in' = Some(enc[1].ciphertext)
  /\ ct_src' = "direct"
  /\ UNCHANGED <<lib_vars, ntt_vars, gen, session, level, pk, sk, enc, wire, wire_kind, dec, sk_loaded,
                 dec_loaded, cpa_msg, cpa_ct, cpa_out, pk_stored, sk_stored>>

\* wire = kem::ciphertext_to_bytes(&enc.ciphertext)
Send ==
  /\ enc # None /\ ~enc[1].panic
  /\ wire = None /\ ct_in = None
  /\ \E ct_bytes \in {ciphertext_to_bytes(enc[1].ciphertext)} :
       /\ ~ct_bytes.panic
       /\ wire' = Some(ct_bytes.bytes)
  /\ wire_kind' = "honest"
  /\ UNCHANGED <<lib_vars, ntt_vars, gen, session, level, pk, sk, enc, ct_in, ct_src, dec, sk_loaded,
                 dec_loaded, cpa_msg, cpa_ct, cpa_out, pk_stored, sk_stored>>

\* tampered_bytes[offset] ^= mask
Tamper(offset, mask) ==
  /\ wire_kind = "honest" /\ ct_in = None
  /\ 0 <= offset /\ offset < Len(wire[1])
  /\ wire' = Some([wire[1] EXCEPT ![offset + 1] = Xor8(@, mask, 8)])
  /\ wire_kind' = "flipped"
  /\ UNCHANGED <<lib_vars, ntt_vars, gen, session, level, pk, sk, enc, ct_in, ct_src, dec, sk_loaded,
                 dec_loaded, cpa_msg, cpa_ct, cpa_out, pk_stored, sk_stored>>

\* the bytes arrive cut to their first len
Truncate(len) ==
  /\ wire_kind = "honest" /\ ct_in = None
  /\ len < Len(wire[1])
  /\ wire' = Some(SubSeq(wire[1], 1, len))
  /\ wire_kind' = "cut"
  /\ UNCHANGED <<lib_vars, ntt_vars, gen, session, level, pk, sk, enc, ct_in, ct_src, dec, sk_loaded,
                 dec_loaded, cpa_msg, cpa_ct, cpa_out, pk_stored, sk_stored>>

\* the receiver is sent bytes that no encaps produced
Forge(len, fill) ==
  /\ sk # None /\ enc = None /\ wire = None
  /\ session \in {"new", "kem"}
  /\ wire' = Some(Forged(len, fill))
  /\ wire_kind' = "forged"
  /\ session' = "kem"
  /\ UNCHANGED <<lib_vars, ntt_vars, gen, level, pk, sk, enc, ct_in, ct_src, dec, sk_loaded,
                 dec_loaded, cpa_msg, cpa_ct, cpa_out, pk_stored, sk_stored>>

\* ct_in = kem::ciphertext_from_bytes(&wire, level)
Receive ==
  /\ wire # None /\ ct_in = None
  /\ ct_in' = Some(ciphertext_from_bytes(wire[1], level[1]))
  /\ ct_src' = "wire"
  /\ UNCHANGED <<lib_vars, ntt_vars, gen, session, level, pk, sk, enc, wire, wire_kind, dec, sk_loaded,
                 dec_loaded, cpa_msg, cpa_ct, cpa_out, pk_stored, sk_stored>>

\* dec = kem::decaps(&sk, &ct_in)
Decaps ==
  /\ ct_in # None /\ dec = None
  /\ dec' = Some(decaps(sk[1], ct_in[1]))
  /\ UNCHANGED <<lib_vars, ntt_vars, gen, session, level, pk, sk, enc, wire, wire_kind, ct_in, ct_src,
                 sk_loaded, dec_loaded, cpa_msg, cpa_ct, cpa_out, pk_stored, sk_stored>>

\* sk_loaded = kem::sk_from_bytes(&kem::sk_to_bytes(&sk), level)
LoadKemSk ==
  /\ dec # None /\ sk_loaded = None
  /\ wire_kind \in {"none", "forged"}
  /\ sk_loaded' = Some(KemSkReadBack(kem_sk_to_bytes(sk[1]), level[1]))
  /\ UNCHANGED <<lib_vars, ntt_vars, gen, session, level, pk, sk, enc, wire, wire_kind, ct_in, ct_src, dec,
                 dec_loaded, cpa_msg, cpa_ct, cpa_out, pk_stored, sk_stored>>

\* dec_loaded = kem::decaps(&sk_loaded, &ct_in)
DecapsLoaded ==
  /\ sk_loaded # None /\ ct_in # None /\ dec_loaded = None
  /\ dec_loaded' = Some(decaps(sk_loaded[1], ct_in[1]))
  /\ UNCHANGED <<lib_vars, ntt_vars, gen, session, level, pk, sk, enc, wire, wire_kind, ct_in, ct_src, dec,
                 sk_loaded, cpa_msg, cpa_ct, cpa_out, pk_stored, sk_stored>>

\* cpa_ct = cpa::encrypt(&pk, &msg, &coins)
CpaEncrypt(i, j) ==
  /\ pk # None /\ ~pk[1].panic /\ cpa_ct = None
  /\ session = "new"
  /\ cpa_msg' = Some(Entropy(200 + i))
  /\ cpa_ct' = Some(cpa_encrypt(pk[1].pk, Entropy(200 + i), Entropy(300 + j)))
  /\ session' = "cpa"
  /\ UNCHANGED <<lib_vars, ntt_vars, gen, level, pk, sk, enc, wire, wire_kind, ct_in, ct_src, dec,
                 sk_loaded, dec_loaded, cpa_out, pk_stored, sk_stored>>

\* cpa_out = cpa::decrypt(&sk, &cpa_ct)
CpaDecrypt ==
  /\ cpa_ct # None /\ cpa_out = None
  /\ ~sk[1].panic
  /\ cpa_out' = Some(cpa_decrypt(sk[1].sk, cpa_ct[1]))
  /\ UNCHANGED <<lib_vars, ntt_vars, gen, session, level, pk, sk, enc, wire, wire_kind, ct_in, ct_src, dec,
                 sk_loaded, dec_loaded, cpa_msg, cpa_ct, pk_stored, sk_stored>>

\* pk_stored = cpa::pk_from_bytes(&cpa::pk_to_bytes(&pk), level)
LoadCpaPk ==
  /\ pk # None /\ ~pk[1].panic /\ pk_stored = None
  /\ session \in {"new", "keys"}
  /\ pk_stored' = Some(PkReadBack(pk_to_bytes(pk[1].pk), level[1]))
  /\ session' = "keys"
  /\ UNCHANGED <<lib_vars, ntt_vars, gen, level, pk, sk, enc, wire, wire_kind, ct_in, ct_src, dec,
                 sk_loaded, dec_loaded, cpa_msg, cpa_ct, cpa_out, sk_stored>>

\* sk_stored = cpa::sk_from_bytes(&cpa::sk_to_bytes(&sk), level)
LoadCpaSk ==
  /\ sk # None /\ ~sk[1].panic /\ sk_stored = None
  /\ session \in {"new", "keys"}
  /\ sk_stored' = Some(SkReadBack(sk_to_bytes(sk[1].sk), level[1]))
  /\ session' = "keys"
  /\ UNCHANGED <<lib_vars, ntt_vars, gen, level, pk, sk, enc, wire, wire_kind, ct_in, ct_src, dec,
                 sk_loaded, dec_loaded, cpa_msg, cpa_ct, cpa_out, pk_stored>>


\* the operand pool holds MaxInput polynomials per parameter set
MaxInput == 4

\* (q, n, psi): the instance of ntt.rs's tests, Kyber's, and a smaller one
NttInstances == {<<97, 8, 13>>, <<Q, N, KyberPsi>>, <<17, 4, 2>>}

\* the i-th operand: 1 + 2x and 3 + 4x, the operands of
\* test_ntt_polynomial_multiplication, come first; from the third on the
\* top coefficient is set as well
NttInput(i, q, n) ==
  PolynomialNew(
    [j \in 0..n - 1 |->
       ZqNew(CASE j = 0 -> 2 * i - 1
               [] j = 1 -> 2 * i
               [] j = n - 1 /\ i >= 3 -> i - 2
               [] OTHER -> 0, q)],
    n, q, ModulusInfo(n, q, FALSE))

NttIdle ==
  /\ ntt_params = None /\ poly_p = None /\ poly_r = None
  /\ prod_ntt = None /\ prod_school = None
  /\ rt_src = None /\ rt_back = None

ZqIdle ==
  /\ zq_q = 0 /\ zq_a = None /\ zq_b = None
  /\ zq_call = NoCall /\ zq_ret = Returned(None) /\ zq_n = 0

CoreIdle == lib_in = NoInput /\ lib_out = None /\ cmp = <<>>

LibIdle == ZqIdle /\ CoreIdle

Init ==
  /\ gen \in 0..MaxGen
  /\ KemIdle
  /\ NttIdle
  /\ LibIdle

InitNtt ==
  /\ gen = 0
  /\ KemIdle
  /\ LibIdle
  /\ \E inst \in NttInstances, i, j \in 1..MaxInput :
       /\ ntt_params = Some(NTTParamsNew(inst[1], inst[2], inst[3]))
       /\ poly_p = Some(NttInput(i, inst[1], inst[2]))
       /\ poly_r = Some(NttInput(j, inst[1], inst[2]))
  /\ prod_ntt = None /\ prod_school = None
  /\ rt_src = None /\ rt_back = None

\* prod_ntt = ntt_polynomial_mul(&poly_p, &poly_r, &ntt_params)
NttMultiply ==
  /\ ntt_params # None /\ prod_ntt = None
  /\ prod_ntt' = Some(ntt_polynomial_mul(poly_p[1], poly_r[1], ntt_params[1]))
  /\ UNCHANGED <<lib_vars, gen, kem_vars, ntt_params, poly_p, poly_r, prod_school, rt_src, rt_back>>

\* prod_school = poly_p.schoolbook_mul(&poly_r)
SchoolbookMultiply ==
  /\ ntt_params # None /\ prod_ntt # None /\ prod_school = None
  /\ prod_school' = Some(schoolbook_mul(poly_p[1], poly_r[1]))
  /\ UNCHANGED <<lib_vars, gen, kem_vars, ntt_params, poly_p, poly_r, prod_ntt, rt_src, rt_back>>

\* the polynomial 1 + 2x + ... + n x^(n-1): for n = 8 the operand of
\* test_ntt_roundtrip
DensePoly(q, n) ==
  PolynomialNew([j \in 0..n - 1 |-> ZqNew(j + 1, q)], n, q, ModulusInfo(n, q, FALSE))

\* the operands a round trip is tried on
RoundTripInputs == {poly_p[1], poly_r[1], DensePoly(ntt_params[1].q, ntt_params[1].n)}

\* rt_back = ntt_inverse(&ntt_forward(&p, &ntt_params), &ntt_params)
NttRoundTrip(p) ==
  /\ ntt_params # None /\ rt_src = None
  /\ rt_src' = Some(p)
  /\ rt_back' = Some(ntt_inverse(ntt_forward(p, ntt_params[1]), ntt_params[1]))
  /\ UNCHANGED <<lib_vars, gen, kem_vars, ntt_params, poly_p, poly_r, prod_ntt, prod_school>>

(***************************************************************************)
(* Field elements on their own (zq.rs, params.rs)                          *)
(***************************************************************************)
MaxOps == 2

DilithiumQ == 8380417

\* i32::MAX and i32::MIN
MaxI32 == (Pow2(30) - 1) + Pow2(30)

MinI32 == (-MaxI32) - 1

\* the moduli tried: 1, a composite, the primes of the tests and of the
\* parameter sets, and the largest i32
ZqModuli == {1, 12, 17, Q, DilithiumQ, MaxI32}

PrimeModuli == {17, Q, DilithiumQ, MaxI32}

\* the i32 values handed to ZqElement::new
I32Inputs == {MinI32, -1, 0, 1, 5, 4097, MaxI32}

\* ZqElement::inverse: the loop of the extended Euclidean algorithm
RECURSIVE inverse_loop(_, _, _, _)
inverse_loop(old_r, r, old_s, s) ==
  IF r = 0 THEN <<old_r, old_s>>
  ELSE LET quotient == Quot(old_r, r) IN
       inverse_loop(r, old_r - quotient * r, s, old_s - quotient * s)

InverseOf(ends, q) == IF ends[1] > 1 THEN None ELSE Some(ZqNew(ends[2], q))

inverse(value, q) ==
  IF value = 0 THEN None ELSE InverseOf(inverse_loop(value, q, 1, 0), q)

\* self.value + other.value leaves the i32 range
AddOverflows(a, b) == a > MaxI32 - b

\* the sum of two values in [0, 2^31) that leaves the range, wrapped: a + b - 2^32
WrappedSum(a, b) == ((a - MaxI32) + (b - MaxI32)) - 2

\* Add for ZqElement: the sum is an i32; where it overflows, a build with
\* overflow checks aborts and one without wraps
AddOutcomes(a, b, q) ==
  IF AddOverflows(a, b)
    THEN {Aborted, Returned(Some(ZqNew(WrappedSum(a, b), q)))}
    ELSE {Returned(Some(ZqAdd(a, b, q)))}

\* the element a call leaves in zq_a
Kept(ret, old) == IF ret.panic \/ ret.value = None THEN old ELSE ret.value

\* ZqElement::new(value, zq_q)
ZqNewCall(value) ==
  /\ zq_q > 0 /\ (zq_a = None \/ zq_b = None)
  /\ zq_call' = [op |-> "new", a |-> value, b |-> 0]
  /\ zq_ret' = Returned(Some(ZqNew(value, zq_q)))
  /\ IF zq_a = None
       THEN zq_a' = Some(ZqNew(value, zq_q)) /\ zq_b' = zq_b
       ELSE zq_b' = Some(ZqNew(value, zq_q)) /\ zq_a' = zq_a
  /\ UNCHANGED <<cmp, lib_in, lib_out, gen, kem_vars, ntt_vars, zq_q, zq_n>>

\* zq_a = zq_a + zq_b
ZqAddCall ==
  /\ zq_a # None /\ zq_b # None /\ zq_n < MaxOps
  /\ \E ret \in AddOutcomes(zq_a[1], zq_b[1], zq_q) :
       /\ zq_ret' = ret
       /\ zq_a' = Kept(ret, zq_a)
  /\ zq_call' = [op |-> "add", a |-> zq_a[1], b |-> zq_b[1]]
  /\ zq_n' = zq_n + 1
  /\ UNCHANGED <<cmp, lib_in, lib_out, gen, kem_vars, ntt_vars, zq_q, zq_b>>

\* zq_a = zq_a - zq_b
ZqSubCall ==
  /\ zq_a # None /\ zq_b # None /\ zq_n < MaxOps
  /\ zq_ret' = Returned(Some(ZqSub(zq_a[1], zq_b[1], zq_q)))
  /\ zq_a' = Some(ZqSub(zq_a[1], zq_b[1], zq_q))
  /\ zq_call' = [op |-> "sub", a |-> zq_a[1], b |-> zq_b[1]]
  /\ zq_n' = zq_n + 1
  /\ UNCHANGED <<cmp, lib_in, lib_out, gen, kem_vars, ntt_vars, zq_q, zq_b>>

\* zq_a = zq_a * zq_b
ZqMulCall ==
  /\ zq_a # None /\ zq_b # None /\ zq_n < MaxOps
  /\ zq_ret' = Returned(Some(ZqMul(zq_a[1], zq_b[1], zq_q)))
  /\ zq_a' = Some(ZqMul(zq_a[1], zq_b[1], zq_q))
  /\ zq_call' = [op |-> "mul", a |-> zq_a[1], b |-> zq_b[1]]
  /\ zq_n' = zq_n + 1
  /\ UNCHANGED <<cmp, lib_in, lib_out, gen, kem_vars, ntt_vars, zq_q, zq_b>>

\* zq_a = -zq_a
ZqNegCall ==
  /\ zq_a # None /\ zq_n < MaxOps
  /\ zq_ret' = Returned(Some(ZqNeg(zq_a[1], zq_q)))
  /\ zq_a' = Some(ZqNeg(zq_a[1], zq_q))
  /\ zq_call' = [op |-> "neg", a |-> zq_a[1], b |-> 0]
  /\ zq_n' = zq_n + 1
  /\ UNCHANGED <<cmp, lib_in, lib_out, gen, kem_vars, ntt_vars, zq_q, zq_b>>

\* zq_b = zq_a.inverse(), where there is one
ZqInverseCall ==
  /\ zq_a # None /\ zq_n < MaxOps
  /\ zq_ret' = Returned(inverse(zq_a[1], zq_q))
  /\ zq_b' = Kept(Returned(inverse(zq_a[1], zq_q)), zq_b)
  /\ zq_call' = [op |-> "inverse", a |-> zq_a[1], b |-> 0]
  /\ zq_n' = zq_n + 1
  /\ UNCHANGED <<cmp, lib_in, lib_out, gen, kem_vars, ntt_vars, zq_q, zq_a>>

InitZq ==
  /\ gen = 0
  /\ KemIdle
  /\ NttIdle
  /\ zq_q \in ZqModuli
  /\ zq_a = None /\ zq_b = None
  /\ zq_call = NoCall /\ zq_ret = Returned(None) /\ zq_n = 0
  /\ CoreIdle

NextZq ==
  \/ \E value \in I32Inputs : ZqNewCall(value)
  \/ ZqAddCall
  \/ ZqSubCall
  \/ ZqMulCall
  \/ ZqNegCall
  \/ ZqInverseCall

(***************************************************************************)
(* Single calls of the library's functions                                 *)
(***************************************************************************)
\* the message of test_message_encoding
TestMessage ==
  <<1, 35, 69, 103, 137, 171, 205, 239, 254, 220, 186, 152, 118, 84, 50, 16,
    0, 255, 85, 170, 204, 51, 240, 15, 18, 52, 86, 120, 154, 188, 222, 240>>

\* the message of 32 bytes `fill` with bit number `bit` (0..255) flipped
BitMessage(fill, bit) ==
  [t \in 1..32 |->
     IF t = (bit \div 8) + 1
       THEN IF (fill \div Pow2(bit % 8)) % 2 = 1
              THEN fill - Pow2(bit % 8) ELSE fill + Pow2(bit % 8)
       ELSE fill]

Messages ==
  {TestMessage} \cup {[t \in 1..32 |-> fill] : fill \in {0, 255}}
    \cup {BitMessage(fill, bit) : fill \in {0, 255}, bit \in 0..N - 1}

\* the modulus descriptors the callers of decode_message have
MessageModuli == {poly_modulus, poly_modulus_ntt}

\* lib_out = encode_message(&decode_message(&msg, modulus_info))
MessageRoundTrip ==
  /\ lib_in.kind = "message" /\ lib_out = None
  /\ lib_out' = Some(encode_message(decode_message(lib_in.msg, lib_in.mi)))
  /\ UNCHANGED <<cmp, gen, kem_vars, ntt_vars, zq_vars, lib_in>>

\* the polynomial of n coefficients start, start + step, ... reduced modulo q
Ramp(q, n, start, step) ==
  PolynomialNew([i \in 0..n - 1 |-> ZqNew(start + i * step, q)], n, q,
                ModulusInfo(n, q, FALSE))

\* the moduli, degrees and bit-widths compress is called with: those of
\* test_compress_decompress, of Kyber (d_u, d_v and the widths around them)
\* and of Dilithium
CompressCases ==
  {<<13, 4, d>> : d \in 1..3} \cup {<<17, 8, d>> : d \in 1..4}
    \cup {<<Q, N, d>> : d \in {1, DV, DU, DU + 1}}
    \cup {<<DilithiumQ, N, d>> : d \in {1, 7}}

\* polynomials over Z_q that between them hold every residue of a small q
\* and a spread of those of a large one
CompressPolys(q, n) ==
  {Ramp(q, n, start * n, 1) : start \in 0..(IF q <= Q THEN q \div n ELSE 3)}
    \cup {Ramp(q, n, q - n, 1), Ramp(q, n, 1, q \div n)}

\* lib_out = the polynomial compressed and then decompressed
CompressDecompress ==
  /\ lib_in.kind = "compress" /\ lib_out = None
  /\ \E c \in {compress(lib_in.poly, lib_in.d)} :
       lib_out' = Some([compressed |-> c, decompressed |-> decompress(c, lib_in.poly.q)])
  /\ UNCHANGED <<cmp, gen, kem_vars, ntt_vars, zq_vars, lib_in>>

\* every sequence of values gen_range(0..n - i) can return in rounds 0..tau-1
AllDraws(n, tau) == {d \in [1..tau -> 0..n - 1] : \A i \in 1..tau : d[i] <= n - i}

\* for the degree of Dilithium: the least, the greatest and a mixed draw in
\* every round, with a fixed, an alternating and a mixed sequence of signs
LongDraws(n, tau) ==
  {[i \in 1..tau |-> 0], [i \in 1..tau |-> n - i], [i \in 1..tau |-> (i * i * 7) % (n - i + 1)]}

LongBools(tau) ==
  {[i \in 1..tau |-> TRUE], [i \in 1..tau |-> i % 2 = 0], [i \in 1..tau |-> (i * i) % 3 = 1]}

\* lib_out = sample_challenge(tau, modulus_info, &mut rng)
SampleChallenge ==
  /\ lib_in.kind = "challenge" /\ lib_out = None
  /\ lib_out' = Some(sample_challenge(lib_in.tau, lib_in.mi, lib_in.draws, lib_in.bools))
  /\ UNCHANGED <<cmp, gen, kem_vars, ntt_vars, zq_vars, lib_in>>

\* the seeds handed to expand_matrix: 32 bytes as in Kyber, 30 as in
\* test_expand_matrix
ExpandSeeds == {Entropy(1), Entropy(2), SubSeq(Entropy(3), 1, 30)}

\* lib_out = the matrix expanded twice, and once more with a row and a
\* column more
ExpandTwice ==
  /\ lib_in.kind = "expand" /\ lib_out = None
  /\ lib_out' = Some([matrix |-> expand_matrix(lib_in.rho, lib_in.k, lib_in.l, lib_in.mi),
                      matrix2 |-> expand_matrix(lib_in.rho, lib_in.k, lib_in.l, lib_in.mi),
                      wider |-> expand_matrix(lib_in.rho, lib_in.k + 1, lib_in.l + 1,
                                              lib_in.mi)])
  /\ UNCHANGED <<cmp, gen, kem_vars, ntt_vars, zq_vars, lib_in>>

\* operands of a given shape: a polynomial, a vector of len of them, a
\* matrix of n_rows such vectors
ShapePoly(n, q, tag) ==
  Poly(Force([i \in 0..n - 1 |-> ZqNew(i + 1, q)]), q, ModulusInfo(n, q, tag))

ShapeVector(len, n, q, tag) ==
  PolyVectorNew([i \in 1..len |-> ShapePoly(n, q, tag)], ModulusInfo(n, q, tag))

ShapeMatrix(n_rows, n_cols, n, q, tag) ==
  PolyMatrixNew([i \in 1..n_rows |-> ShapeVector(n_cols, n, q, tag)], n_rows, n_cols,
                ModulusInfo(n, q, tag))

\* a shape: vector length (or matrix rows), degree, modulus, NTT tag; and
\* the shape that differs from it in one of them
BaseShape(tag) == [len |-> 2, n |-> 4, q |-> 17, tag |-> tag]

Differing(shape, differ) ==
  CASE differ = "length" -> [shape EXCEPT !.len = 3]
    [] differ = "degree" -> [shape EXCEPT !.n = 8]
    [] differ = "q" -> [shape EXCEPT !.q = 13]
    [] differ = "tag" -> [shape EXCEPT !.tag = ~shape.tag]
    [] OTHER -> shape

ShapeOps == {"add", "sub", "vec_add", "vec_sub", "inner_product", "mul_vec", "mul_mat"}

\* the operand on the left of op, and the one on the right
LeftOperand(op, sh) ==
  CASE op \in {"add", "sub"} -> ShapePoly(sh.n, sh.q, sh.tag)
    [] op \in {"vec_add", "vec_sub", "inner_product"} -> ShapeVector(sh.len, sh.n, sh.q, sh.tag)
    [] OTHER -> ShapeMatrix(2, sh.len, sh.n, sh.q, sh.tag)

RightOperand(op, sh) ==
  CASE op \in {"add", "sub"} -> ShapePoly(sh.n, sh.q, sh.tag)
    [] op = "mul_mat" -> ShapeMatrix(sh.len, 2, sh.n, sh.q, sh.tag)
    [] OTHER -> ShapeVector(sh.len, sh.n, sh.q, sh.tag)

\* the operator or method named op, applied
ApplyOp(op, a, b, ntt) ==
  CASE op = "add" -> PolyAdd(a, b)
    [] op = "sub" -> PolySub(a, b)
    [] op = "vec_add" -> PolyVectorAdd(a, b)
    [] op = "vec_sub" -> PolyVectorSub(a, b)
    [] op = "inner_product" -> inner_product(a, b, ntt)
    [] op = "mul_vec" -> mul_vec(a, b, ntt)
    [] op = "mul_mat" -> mul_mat(a, b, ntt)

\* lib_out = a op b
ShapeCall ==
  /\ lib_in.kind = "shape" /\ lib_out = None
  /\ lib_out' = Some(ApplyOp(lib_in.op, lib_in.a, lib_in.b, lib_in.ntt))
  /\ UNCHANGED <<cmp, gen, kem_vars, ntt_vars, zq_vars, lib_in>>

\* LatticeParams and DilithiumParams
LatticeParams(q, n, eta, beta, k) == [q |-> q, n |-> n, eta |-> eta, beta |-> beta, k |-> k]

DilithiumParams(base, l, gamma1, gamma2, beta, tau, omega) ==
  [base |-> base, l |-> l, gamma1 |-> gamma1, gamma2 |-> gamma2, beta |-> beta,
   tau |-> tau, omega |-> omega]

\* the Kyber records with eta and beta taken from the wrong column
lattice_params_swapped(lv) ==
  LatticeParams(Q, N, LevelEta2(lv), LevelEta1(lv), LevelK(lv))

\* SecurityLevel::lattice_params: kyber_512(), kyber_768(), kyber_1024()
lattice_params(lv) ==
  CASE lv = "Kyber512" -> LatticeParams(Q, N, 3, 2, 2)
    [] lv = "Kyber768" -> LatticeParams(Q, N, 2, 2, 3)
    [] lv = "Kyber1024" -> LatticeParams(Q, N, 2, 2, 4)

DilithiumLevels == {"Dilithium2", "Dilithium3", "Dilithium5"}

\* dilithium_2(), dilithium_3(), dilithium_5()
dilithium_params(lv) ==
  CASE lv = "Dilithium2" ->
         DilithiumParams(LatticeParams(DilithiumQ, N, 2, 78, 4), 4, 131072, 95, 78, 39, 80)
    [] lv = "Dilithium3" ->
         DilithiumParams(LatticeParams(DilithiumQ, N, 4, 196, 6), 5, 524288, 261, 196, 49, 55)
    [] lv = "Dilithium5" ->
         DilithiumParams(LatticeParams(DilithiumQ, N, 2, 120, 8), 7, 524288, 147, 120, 60, 75)

\* lib_out = the parameters of a level: for Kyber what the methods of
\* SecurityLevel return, for Dilithium the record
ParamsLookup ==
  /\ lib_in.kind = "params" /\ lib_out = None
  /\ lib_out' = Some(IF lib_in.level \in SecurityLevels
                       THEN [k |-> LevelK(lib_in.level), eta1 |-> LevelEta1(lib_in.level),
                             eta2 |-> LevelEta2(lib_in.level),
                             lattice_params |-> lattice_params(lib_in.level)]
                       ELSE dilithium_params(lib_in.level))
  /\ UNCHANGED <<cmp, gen, kem_vars, ntt_vars, zq_vars, lib_in>>

\* schoolbook_mul called on two polynomials of degree 4: the operands of
\* test_schoolbook_mul, and operands over the test, Kyber and Dilithium moduli
\* whose coefficients include q - 1, with every combination of NTT tags
SchoolbookModuli == {13, Q, DilithiumQ}

SchoolbookLeft(q) == [0..3 -> {0, 1, q - 1}]

SchoolbookRight(q) ==
  {[i \in 0..3 |-> q - 1], [i \in 0..3 |-> IF i = 3 THEN 1 ELSE 0],
   [i \in 0..3 |-> IF i < 2 THEN q - 2 + i ELSE i]}

SchoolbookCall ==
  /\ lib_in.kind = "schoolbook" /\ lib_out = None
  /\ lib_out' = Some(schoolbook_mul(
                       Poly(lib_in.a, lib_in.q, ModulusInfo(4, lib_in.q, lib_in.tag_a)),
                       Poly(lib_in.b, lib_in.q, ModulusInfo(4, lib_in.q, lib_in.tag_b))))
  /\ UNCHANGED <<cmp, gen, kem_vars, ntt_vars, zq_vars, lib_in>>

\* inner_product called on two vectors of equal length 0..2 over Z_17, n = 4,
\* with and without NTT parameters, the entries tagged or not
InnerCoeffs == {<<1, 2, 0, 0>>, <<16, 0, 5, 1>>}

InnerPoly(c, tag) == Poly([i \in 0..3 |-> c[i + 1]], 17, ModulusInfo(4, 17, tag))

InnerVector(cs, tags, len) ==
  PolyVectorNew([i \in 1..len |-> InnerPoly(cs[i], tags[i])],
                ModulusInfo(4, 17, len > 0 /\ tags[1]))

InnerProductCall ==
  /\ lib_in.kind = "inner" /\ lib_out = None
  /\ lib_out' = Some(inner_product(lib_in.self, lib_in.other, lib_in.ntt))
  /\ UNCHANGED <<cmp, gen, kem_vars, ntt_vars, zq_vars, lib_in>>

\* high_bits and low_bits called on one polynomial of degree 4: the input of
\* test_high_low_bits, every residue of Z_13, and coefficients around the
\* multiples of gamma2 = (q - 1) / 88 and (q - 1) / 32 over the Dilithium
\* modulus
DecomposeCases ==
  {<<13, g, c>> : g \in {1, 2, 4, 5, 13, 20},
                  c \in {<<1, 5, 9, 12>>, <<0, 1, 2, 3>>, <<4, 5, 6, 7>>, <<8, 9, 10, 11>>}}
  \cup {<<DilithiumQ, g, c>> : g \in {95232, 261888},
                               c \in {<<0, 47616, 47617, 95231>>,
                                      <<95232, 130944, 130945, 8380416>>}}

DecomposeCall ==
  /\ lib_in.kind = "decompose" /\ lib_out = None
  /\ lib_out' = Some([high |-> high_bits(lib_in.poly, lib_in.gamma2),
                      low |-> low_bits(lib_in.poly, lib_in.gamma2)])
  /\ UNCHANGED <<cmp, gen, kem_vars, ntt_vars, zq_vars, lib_in>>

\* one call of each operation that returns a polynomial, on polynomials of
\* degree 4 over Z_17 (NTT parameters psi = 2): new on 0..5 coefficients
\* built with the descriptor's modulus or with 13, from_bytes on 0, 7 and 8
\* bytes at 12 bits per coefficient, compress to 1 and 3 bits, decompress of
\* a 3-bit polynomial
PolyOps ==
  {"new", "zero", "constant", "from_bytes", "add", "sub", "neg", "scalar_mul",
   "schoolbook_mul", "compress", "decompress", "ntt_forward", "ntt_inverse"}

PolyOperand(c, tag) == Poly([i \in 0..3 |-> c[i + 1]], 17, ModulusInfo(4, 17, tag))

PolyOpInputs(op) ==
  CASE op = "new" ->
         {[len |-> len, cq |-> cq] : len \in 0..5, cq \in {17}}
           \cup {[len |-> len, cq |-> 13] : len \in 1..5}
    [] op = "zero" -> {[n |-> n, q |-> q] : n \in {4, 8}, q \in {17, Q}}
    [] op = "constant" -> {[value |-> v] : v \in {-1, 0, 5, 20}}
    [] op = "from_bytes" -> {[len |-> len] : len \in {0, 7, 8}}
    [] op \in {"add", "sub", "schoolbook_mul"} ->
         {[a |-> PolyOperand(c, FALSE), b |-> PolyOperand(d, FALSE)] :
            c, d \in {<<1, 2, 3, 4>>, <<16, 0, 5, 1>>}}
    [] op = "neg" -> {[a |-> PolyOperand(c, FALSE)] : c \in {<<1, 2, 3, 4>>, <<16, 0, 5, 1>>}}
    [] op = "scalar_mul" ->
         {[a |-> PolyOperand(<<16, 0, 5, 1>>, FALSE), scalar |-> x, sq |-> sq] :
            x \in {0, 3, 12}, sq \in {17, 13}}
    [] op = "compress" ->
         {[a |-> PolyOperand(c, FALSE), p |-> p] :
            c \in {<<1, 2, 3, 4>>, <<16, 0, 5, 1>>}, p \in {1, 3}}
    [] op = "decompress" ->
         {[a |-> compress(PolyOperand(c, FALSE), 3), q |-> q] :
            c \in {<<1, 2, 3, 4>>, <<16, 0, 5, 1>>}, q \in {17, Q}}
    [] op = "ntt_forward" ->
         {[a |-> PolyOperand(c, tag)] : c \in {<<1, 2, 3, 4>>, <<16, 0, 5, 1>>},
                                        tag \in BOOLEAN}
    [] op = "ntt_inverse" ->
         {[a |-> PolyOperand(c, tag)] : c \in {<<1, 2, 3, 4>>, <<16, 0, 5, 1>>},
                                        tag \in BOOLEAN}

ApplyPolyOp(op, in) ==
  CASE op = "new" ->
         PolynomialNew([i \in 0..in.len - 1 |-> ZqNew(i + 9, in.cq)], in.len, in.cq,
                       ModulusInfo(4, 17, FALSE))
    [] op = "zero" -> PolynomialZero(ModulusInfo(in.n, in.q, FALSE))
    [] op = "constant" -> PolynomialConstant(in.value, ModulusInfo(4, 17, FALSE))
    [] op = "from_bytes" ->
         from_bytes([t \in 1..in.len |-> (37 * t) % 256], ModulusInfo(4, 17, FALSE), 12)
    [] op = "add" -> PolyAdd(in.a, in.b)
    [] op = "sub" -> PolySub(in.a, in.b)
    [] op = "neg" -> PolyNeg(in.a)
    [] op = "scalar_mul" -> scalar_mul(in.a, ZqNew(in.scalar, in.sq), in.sq)
    [] op = "schoolbook_mul" -> schoolbook_mul(in.a, in.b)
    [] op = "compress" -> compress(in.a, in.p)
    [] op = "decompress" -> decompress(in.a, in.q)
    [] op = "ntt_forward" -> ntt_forward(in.a, NTTParamsNew(17, 4, 2))
    [] op = "ntt_inverse" -> ntt_inverse(in.a, NTTParamsNew(17, 4, 2))

PolyOpCall ==
  /\ lib_in.kind = "poly" /\ lib_out = None
  /\ lib_out' = Some(ApplyPolyOp(lib_in.op, lib_in.in))
  /\ UNCHANGED <<cmp, gen, kem_vars, ntt_vars, zq_vars, lib_in>>

InitCore ==
  /\ gen = 0
  /\ KemIdle
  /\ NttIdle
  /\ ZqIdle
  /\ lib_out = None /\ cmp = <<>>
  /\ \/ \E msg \in Messages, mi \in MessageModuli :
          lib_in = [kind |-> "message", msg |-> msg, mi |-> mi]
     \/ \E case \in CompressCases :
          \E poly \in CompressPolys(case[1], case[2]) :
            lib_in = [kind |-> "compress", poly |-> poly, d |-> case[3]]
     \/ \E q \in {3, 17}, tau \in 0..4 :
          \E draws \in AllDraws(4, tau), bools \in [1..tau -> BOOLEAN] :
            lib_in = [kind |-> "challenge", tau |-> tau, mi |-> ModulusInfo(4, q, FALSE),
                      draws |-> draws, bools |-> bools]
     \/ \E rho \in ExpandSeeds, k, l \in 2..3,
             mi \in {poly_modulus, ModulusInfo(8, 97, FALSE)} :
          lib_in = [kind |-> "expand", rho |-> rho, k |-> k, l |-> l, mi |-> mi]
     \/ \E op \in ShapeOps, differ \in {"none", "length", "degree", "q", "tag"},
             tag \in BOOLEAN, ntt \in {None, Some(NTTParamsNew(17, 4, 2))} :
          /\ op \in {"add", "sub"} => differ # "length" /\ ntt = None
          /\ op \in {"vec_add", "vec_sub"} => ntt = None
          /\ lib_in = [kind |-> "shape", op |-> op, differ |-> differ, ntt |-> ntt,
                       a |-> LeftOperand(op, BaseShape(tag)),
                       b |-> RightOperand(op, Differing(BaseShape(tag), differ))]
     \/ \E lv \in SecurityLevels \cup DilithiumLevels :
          lib_in = [kind |-> "params", level |-> lv]
     \/ \E len \in 0..2, ntt \in {None, Some(NTTParamsNew(17, 4, 2))} :
          \E cs, ds \in [1..len -> InnerCoeffs], tags, other_tags \in [1..len -> BOOLEAN] :
            lib_in = [kind |-> "inner", ntt |-> ntt,
                      self |-> InnerVector(cs, tags, len),
                      other |-> InnerVector(ds, other_tags, len)]
     \/ \E case \in DecomposeCases :
          lib_in = [kind |-> "decompose", gamma2 |-> case[2],
                    poly |-> Poly([i \in 0..3 |-> case[3][i + 1]], case[1],
                                  ModulusInfo(4, case[1], FALSE))]
     \/ \E op \in PolyOps :
          \E in \in PolyOpInputs(op) : lib_in = [kind |-> "poly", op |-> op, in |-> in]
     \/ \E tag_a, tag_b \in BOOLEAN :
          lib_in = [kind |-> "schoolbook", q |-> 13, tag_a |-> tag_a, tag_b |-> tag_b,
                    a |-> [i \in 0..3 |-> IF i < 2 THEN i + 1 ELSE 0],
                    b |-> [i \in 0..3 |-> IF i < 2 THEN i + 3 ELSE 0]]
     \/ \E q \in SchoolbookModuli :
          \E a \in SchoolbookLeft(q), b \in SchoolbookRight(q) :
            lib_in = [kind |-> "schoolbook", q |-> q, tag_a |-> FALSE, tag_b |-> FALSE,
                      a |-> a, b |-> b]
     \/ \E tau \in {39, 49, 60} :
          \E draws \in LongDraws(N, tau), bools \in LongBools(tau) :
            lib_in = [kind |-> "challenge", tau |-> tau,
                      mi |-> ModulusInfo(N, DilithiumQ, FALSE),
                      draws |-> draws, bools |-> bools]

NextCore ==
  \/ MessageRoundTrip
  \/ CompressDecompress
  \/ SampleChallenge
  \/ ExpandTwice
  \/ ShapeCall
  \/ ParamsLookup
  \/ SchoolbookCall
  \/ InnerProductCall
  \/ DecomposeCall
  \/ PolyOpCall

(***************************************************************************)
(* constant_time_compare, statement by statement (kem.rs)                  *)
(***************************************************************************)
MaxCmpLen == 2

CmpBytes == {0, 1, 255}

\* the byte strings of a given length: those handed to the first call, and
\* those handed to the second
CmpStrings(len) == [1..len -> CmpBytes]

CmpStrings2(len) == [1..len -> {0, 255}]

\* a call about to start
Run(a, b) ==
  [a |-> a, b |-> b, pc |-> "start", i |-> 0, result |-> 0, steps |-> <<>>, ret |-> FALSE]

\* if a.len() != b.len() { return false; }  let mut result = 0u8;
Entered(run) ==
  IF Len(run.a) # Len(run.b)
    THEN [run EXCEPT !.pc = "done", !.ret = FALSE, !.steps = Append(@, "lengths differ")]
    ELSE [run EXCEPT !.pc = "loop", !.result = 0, !.i = 0, !.steps = Append(@, "lengths equal")]

\* an iteration that leaves the loop at the first difference
IteratedEarlyExit(run) ==
  IF run.a[run.i + 1] # run.b[run.i + 1]
    THEN [run EXCEPT !.pc = "done", !.ret = FALSE, !.steps = Append(@, "xor-or")]
    ELSE [run EXCEPT !.i = @ + 1, !.steps = Append(@, "xor-or")]

\* result |= a[i] ^ b[i];
Iterated(run) ==
  [run EXCEPT !.result = Or8(@, Xor8(run.a[run.i + 1], run.b[run.i + 1], 8), 8),
              !.i = @ + 1,
              !.steps = Append(@, "xor-or")]

\* result == 0
Returned0(run) ==
  [run EXCEPT !.pc = "done", !.ret = (run.result = 0), !.steps = Append(@, "compare to zero")]

\* the second call is made when the first has returned
MayStep(r) == r \in DOMAIN cmp /\ (r = 2 => cmp[1].pc = "done")

CompareEnter(r) ==
  /\ MayStep(r) /\ cmp[r].pc = "start"
  /\ cmp' = [cmp EXCEPT ![r] = Entered(cmp[r])]
  /\ UNCHANGED <<gen, kem_vars, ntt_vars, zq_vars, lib_in, lib_out>>

CompareIterate(r) ==
  /\ MayStep(r) /\ cmp[r].pc = "loop" /\ cmp[r].i < Len(cmp[r].a)
  /\ cmp' = [cmp EXCEPT ![r] = Iterated(cmp[r])]
  /\ UNCHANGED <<gen, kem_vars, ntt_vars, zq_vars, lib_in, lib_out>>

CompareReturn(r) ==
  /\ MayStep(r) /\ cmp[r].pc = "loop" /\ cmp[r].i = Len(cmp[r].a)
  /\ cmp' = [cmp EXCEPT ![r] = Returned0(cmp[r])]
  /\ UNCHANGED <<gen, kem_vars, ntt_vars, zq_vars, lib_in, lib_out>>

\* two calls on arguments of the same lengths
InitCmp ==
  /\ gen = 0
  /\ KemIdle
  /\ NttIdle
  /\ ZqIdle
  /\ lib_in = NoInput /\ lib_out = None
  /\ \E la, lb \in 0..MaxCmpLen :
       \E a \in CmpStrings(la), b \in CmpStrings(lb),
          c \in CmpStrings2(la), d \in CmpStrings2(lb) :
         cmp = <<Run(a, b), Run(c, d)>>

NextCmp ==
  \/ \E r \in 1..2 : CompareEnter(r)
  \/ \E r \in 1..2 : CompareIterate(r)
  \/ \E r \in 1..2 : CompareReturn(r)

Next ==
  \/ \E security_level \in SecurityLevels, s \in 1..MaxSeed : KeyGen(security_level, s)
  \/ \E i \in 1..MaxMsg : Encaps(i)
  \/ Deliver
  \/ Send
  \/ \E flip \in (IF wire = None THEN {} ELSE Flips(wire[1])) : Tamper(flip[1], flip[2])
  \/ \E len \in (IF level = None THEN {} ELSE CutLengths(level[1])) : Truncate(len)
  \/ \E len \in (IF level = None THEN {} ELSE ForgedLengths(level[1])) : Forge(len, 7)
  \/ Receive
  \/ Decaps
  \/ LoadKemSk
  \/ DecapsLoaded
  \/ \E i, j \in 1..MaxMsg : CpaEncrypt(i, j)
  \/ CpaDecrypt
  \/ LoadCpaPk
  \/ LoadCpaSk

NextNtt ==
  \/ NttMultiply
  \/ SchoolbookMultiply
  \/ \E p \in (IF ntt_params = None THEN {} ELSE RoundTripInputs) : NttRoundTrip(p)

Spec == Init /\ [][Next]_vars

SpecNtt == InitNtt /\ [][NextNtt]_vars

SpecZq == InitZq /\ [][NextZq]_vars

SpecCore == InitCore /\ [][NextCore]_vars

SpecCmp == InitCmp /\ [][NextCmp]_vars

(***************************************************************************)
(* Properties of the field elements                                        *)
(***************************************************************************)
InRange(v, q) == 0 <= v /\ v < q

\* C12: field-element range invariant.  For every modulus q > 0 and every
\* i32 handed to ZqElement::new, the stored value lies in [0, q); every
\* value returned by add, sub, mul, neg or inverse on elements of [0, q), and
\* every element kept, lies in [0, q) again.
ZqValuesInRange ==
  zq_q > 0
    => /\ zq_ret.value # None => InRange(zq_ret.value[1], zq_q)
       /\ zq_a # None => InRange(zq_a[1], zq_q)
       /\ zq_b # None => InRange(zq_b[1], zq_q)

\* a negative i32 was normalized, and a sum that left the i32 range was
\* returned wrapped
NegativeAndWrappedNormalized ==
  /\ zq_q = MaxI32 /\ zq_call.op = "add"
  /\ AddOverflows(zq_call.a, zq_call.b)
  /\ zq_ret.value # None
  /\ zq_a # None /\ zq_b = Some(MaxI32 - 1)

\* C13: field inverse.  For a prime q and a # 0, a.inverse() is Some(b) with
\* (a * b).value() = 1; for a = 0 it is None.
InverseTimesSelfIsOne ==
  zq_call.op = "inverse" /\ zq_q \in PrimeModuli
    => IF zq_call.a = 0
         THEN zq_ret.value = None
         ELSE /\ zq_ret.value # None
              /\ ZqMul(zq_call.a, zq_ret.value[1], zq_q) = 1

\* (a * b) mod q over the unbounded integers, for q < 2^29: by doubling
RECURSIVE MulMod(_, _, _)
MulMod(a, b, q) ==
  IF b = 0 THEN 0 ELSE (2 * MulMod(a, b \div 2, q) + (b % 2) * a) % q

\* C14: multiplication for the Dilithium modulus.  For q = 8380417 and all
\* a, b in [0, q) the product has the value (a * b) mod q computed over the
\* unbounded integers.
DilithiumProductExact ==
  zq_call.op = "mul" /\ zq_q = DilithiumQ
    => zq_ret.value = Some(MulMod(zq_call.a, zq_call.b, zq_q))

CenteredDiff(x, y, q) ==
  IF (x - y) % q > q - ((x - y) % q) THEN q - ((x - y) % q) ELSE (x - y) % q

\* C16: compression error bound.  For a polynomial over Z_q and a bit-width
\* d with 2^d < q, every coefficient x and the corresponding coefficient x'
\* of compress(d).decompress(q) differ by at most ceil(q / 2^(d+1)), centered
\* modulo q; compress(d) yields coefficients in [0, 2^d) with the modulus
\* descriptor set to 2^d, and decompress(q) sets it back to q.
CompressionErrorBound ==
  lib_in.kind = "compress" /\ lib_out # None
    => /\ ~lib_out[1].compressed.panic /\ ~lib_out[1].decompressed.panic
       /\ lib_out[1].compressed.q = Pow2(lib_in.d)
       /\ lib_out[1].decompressed.q = lib_in.poly.q
       /\ \A i \in 0..lib_in.poly.degree - 1 :
            /\ lib_out[1].compressed.coeffs[i] \in 0..Pow2(lib_in.d) - 1
            /\ CenteredDiff(lib_in.poly.coeffs[i], lib_out[1].decompressed.coeffs[i],
                            lib_in.poly.q)
                 <= DivCeil(lib_in.poly.q, Pow2(lib_in.d + 1))

\* a polynomial over Z_13 went through one bit: 9 came back as 7, and 12,
\* rounded up to 2^d and reduced to 0, came back as 0
CompressedAndBack ==
  /\ lib_in.kind = "compress" /\ lib_out # None
  /\ lib_in.poly.q = 13 /\ lib_in.d = 1
  /\ lib_in.poly.coeffs[0] = 9 /\ lib_out[1].decompressed.coeffs[0] = 7
  /\ lib_in.poly.coeffs[3] = 12 /\ lib_out[1].compressed.coeffs[3] = 0
  /\ lib_out[1].decompressed.coeffs[3] = 0

\* C17: sparse challenge.  For tau <= n, q > 2 and every sequence of random
\* choices, sample_challenge returns a polynomial with exactly tau nonzero
\* coefficients, each 1 or q - 1, and n - tau zero coefficients.
ChallengeIsSparse ==
  lib_in.kind = "challenge" /\ lib_out # None
    => /\ ~lib_out[1].panic
       /\ \A c \in 0..lib_in.mi.degree - 1 : lib_out[1].coeffs[c] \in {0, 1, lib_in.mi.q - 1}
       /\ Cardinality({c \in 0..lib_in.mi.degree - 1 : lib_out[1].coeffs[c] # 0}) = lib_in.tau
       /\ Cardinality({c \in 0..lib_in.mi.degree - 1 : lib_out[1].coeffs[c] = 0})
            = lib_in.mi.degree - lib_in.tau

\* Dilithium2's challenge (tau = 39 of 256) was sampled with mixed draws,
\* and holds both signs
ChallengeSampled ==
  /\ lib_in.kind = "challenge" /\ lib_out # None
  /\ lib_in.tau = 39 /\ lib_in.mi.degree = N
  /\ \E i \in 1..39 : lib_in.draws[i] # 0 /\ lib_in.draws[i] # N - i
  /\ \E c, e \in 0..N - 1 : lib_out[1].coeffs[c] = 1 /\ lib_out[1].coeffs[e] = DilithiumQ - 1

\* C18: ExpandA determinism.  Two calls expand_matrix(rho, k, l, M) return
\* k x l matrices with equal coefficients in every entry; entry (i, j) depends
\* only on (rho, i, j): it is the same in a matrix of other dimensions; and
\* all its coefficients lie in [0, q).
ExpandDeterministic ==
  lib_in.kind = "expand" /\ lib_out # None
    => /\ Len(lib_out[1].matrix) = lib_in.k
       /\ \A i \in 1..lib_in.k :
            /\ Len(lib_out[1].matrix[i]) = lib_in.l
            /\ \A j \in 1..lib_in.l :
                 /\ ~lib_out[1].matrix[i][j].panic
                 /\ lib_out[1].matrix[i][j].coeffs = lib_out[1].matrix2[i][j].coeffs
                 /\ lib_out[1].matrix[i][j].coeffs = lib_out[1].wider[i][j].coeffs
                 /\ \A c \in 0..lib_in.mi.degree - 1 :
                      InRange(lib_out[1].matrix[i][j].coeffs[c], lib_in.mi.q)

\* the 2 x 3 matrix of test_expand_matrix was expanded from a 30-byte seed,
\* its entries differing from one another
MatrixExpanded ==
  /\ lib_in.kind = "expand" /\ lib_out # None
  /\ lib_in.k = 2 /\ lib_in.l = 3 /\ lib_in.mi.q = 97 /\ Len(lib_in.rho) = 30
  /\ lib_out[1].matrix[1][1].coeffs # lib_out[1].matrix[1][2].coeffs
  /\ lib_out[1].matrix[1][2].coeffs # lib_out[1].matrix[2][1].coeffs

\* C19: shape mismatches abort.  Polynomial add/sub, vector
\* add/sub/inner_product and matrix mul_vec/mul_mat panic instead of returning
\* a value whenever their operands differ in polynomial degree, in q, in NTT
\* tag, in vector length or in matrix dimensions.
ShapeMismatchAborts ==
  lib_in.kind = "shape" /\ lib_out # None /\ lib_in.differ # "none"
    => lib_out[1].panic

\* C20: content-independent ciphertext comparison.  On two byte strings of
\* equal length constant_time_compare takes the same sequence of steps (one
\* XOR-or per index, no early exit) whatever the bytes are, and returns true
\* if and only if every byte is equal; two runs on inputs of the same length
\* make the same number of loop iterations.
ContentIndependentCompare ==
  cmp # <<>>
    => /\ \A r \in 1..2 :
            cmp[r].pc = "done" /\ Len(cmp[r].a) = Len(cmp[r].b)
              => /\ cmp[r].ret = (\A t \in 1..Len(cmp[r].a) : cmp[r].a[t] = cmp[r].b[t])
                 /\ cmp[r].ret = constant_time_compare(cmp[r].a, cmp[r].b)
                 /\ cmp[r].i = Len(cmp[r].a)
                 /\ Len(cmp[r].steps) = Len(cmp[r].a) + 2
                 /\ \A t \in 2..Len(cmp[r].a) + 1 : cmp[r].steps[t] = "xor-or"
       /\ cmp[1].pc = "done" /\ cmp[2].pc = "done"
            => cmp[1].steps = cmp[2].steps /\ cmp[1].i = cmp[2].i

\* two runs on strings of the greatest length have returned: one on equal
\* strings, one on strings that differ in their first byte already
ComparedEqualAndUnequal ==
  /\ cmp # <<>> /\ cmp[1].pc = "done" /\ cmp[2].pc = "done"
  /\ Len(cmp[1].a) = MaxCmpLen /\ Len(cmp[1].b) = MaxCmpLen
  /\ cmp[1].ret /\ ~cmp[2].ret
  /\ cmp[2].a[1] # cmp[2].b[1]

\* C21: parameter tables.  The Kyber levels map to (k, eta1, eta2) =
\* 512:(2,3,2), 768:(3,2,2), 1024:(4,2,2) with q = 3329, n = 256, d_u = 10,
\* d_v = 4, and SecurityLevel::k/eta1/eta2 agree with the record returned by
\* lattice_params(); the Dilithium levels map to (k, l, eta, tau, gamma1,
\* gamma2, omega) = 2:(4,4,2,39,2^17,95,80), 3:(6,5,4,49,2^19,261,55),
\* 5:(8,7,2,60,2^19,147,75) with q = 8380417, n = 256, and in every
\* Dilithium record beta = tau * eta.
ParameterTables ==
  lib_in.kind = "params" /\ lib_out # None
    => IF lib_in.level \in SecurityLevels
         THEN /\ <<lib_out[1].k, lib_out[1].eta1, lib_out[1].eta2>>
                   = (CASE lib_in.level = "Kyber512" -> <<2, 3, 2>>
                        [] lib_in.level = "Kyber768" -> <<3, 2, 2>>
                        [] lib_in.level = "Kyber1024" -> <<4, 2, 2>>)
              /\ lib_out[1].lattice_params.q = 3329 /\ lib_out[1].lattice_params.n = 256
              /\ DU = 10 /\ DV = 4
              /\ lib_out[1].lattice_params.k = lib_out[1].k
              /\ lib_out[1].lattice_params.eta = lib_out[1].eta1
              /\ lib_out[1].lattice_params.beta = lib_out[1].eta2
         ELSE /\ <<lib_out[1].base.k, lib_out[1].l, lib_out[1].base.eta, lib_out[1].tau,
                    lib_out[1].gamma1, lib_out[1].gamma2, lib_out[1].omega>>
                   = (CASE lib_in.level = "Dilithium2" -> <<4, 4, 2, 39, Pow2(17), 95, 80>>
                        [] lib_in.level = "Dilithium3" -> <<6, 5, 4, 49, Pow2(19), 261, 55>>
                        [] lib_in.level = "Dilithium5" -> <<8, 7, 2, 60, Pow2(19), 147, 75>>)
              /\ lib_out[1].base.q = 8380417 /\ lib_out[1].base.n = 256
              /\ lib_out[1].beta = lib_out[1].tau * lib_out[1].base.eta
              /\ lib_out[1].base.beta = lib_out[1].tau * lib_out[1].base.eta

\* the parameters of Kyber-512, whose eta1 and eta2 differ, were looked up
Kyber512LookedUp ==
  /\ lib_in.kind = "params" /\ lib_in.level = "Kyber512" /\ lib_out # None
  /\ lib_out[1].lattice_params.eta = 3 /\ lib_out[1].lattice_params.beta = 2

\* the negacyclic product of a and b at coefficient k, summed over the outer
\* indices from i on: a_i b_j counts positively where i + j = k and
\* negatively where i + j = k + n
RECURSIVE NegacyclicSum(_, _, _, _, _, _)
NegacyclicSum(a, b, n, q, k, i) ==
  IF i = n THEN 0
  ELSE (IF i <= k THEN MulMod(a[i], b[k - i], q) ELSE -MulMod(a[i], b[k + n - i], q))
       + NegacyclicSum(a, b, n, q, k, i + 1)

\* C22: schoolbook multiplication is the negacyclic product.  For all
\* polynomials a, b of degree n over Z_q, coefficient k of a.schoolbook_mul(b)
\* is (sum over i+j=k of a_i b_j) - (sum over i+j=k+n of a_i b_j) mod q.
SchoolbookIsNegacyclic ==
  lib_in.kind = "schoolbook" /\ lib_out # None /\ ~lib_out[1].panic
    => \A k \in 0..3 :
         lib_out[1].coeffs[k]
           = NegacyclicSum(lib_in.a, lib_in.b, 4, lib_in.q, k, 0) % lib_in.q

\* the same where no product of two coefficients leaves the 32-bit range:
\* over the test and Kyber moduli
SchoolbookIsNegacyclicSmall ==
  lib_in.kind = "schoolbook" /\ lib_in.q # DilithiumQ => SchoolbookIsNegacyclic

\* C23: schoolbook multiplication requires standard-domain operands.
\* schoolbook_mul is rejected whenever either operand is tagged
\* is_ntt_form = true.
SchoolbookRejectsTagged ==
  lib_in.kind = "schoolbook" /\ lib_out # None /\ (lib_in.tag_a \/ lib_in.tag_b)
    => lib_out[1].panic

\* row i of A-hat * s-hat taken pointwise, with entry i of e-hat added: both
\* summands in the NTT domain, no inverse transform on either
NttDomainEntry(a_hat, s_hat, e_hat, k, i) ==
  PolyAdd(PointwiseInner(a_hat.rows[i], s_hat, k), e_hat.entries[i])

\* t-hat as C24 describes it, for the seeds rho and sigma
NttDomainPublicVector(security_level, rho, sigma, i) ==
  NttDomainEntry(
    NttMatrix(expand_matrix(rho, LevelK(security_level), LevelK(security_level),
                            poly_modulus),
              LevelK(security_level), FALSE),
    NttVector(SampleVector(sigma, LevelK(security_level), 0, LevelEta1(security_level)),
              LevelK(security_level)),
    NttVector(SampleVector(sigma, LevelK(security_level), LevelK(security_level),
                           LevelEta1(security_level)),
              LevelK(security_level)),
    LevelK(security_level), i)

\* C24: keygen computes the public vector entirely in the NTT domain.
\* t-hat = A-hat * s-hat + NTT(e): the product is still in the NTT domain when
\* NTT(e) is added, no inverse transform having been applied to either
\* summand, which is what makes t-hat the transform of A*s + e.
KeygenStaysInNttDomain ==
  (pk # None /\ session = "new")
    => /\ ~pk[1].panic
       /\ \E s \in 1..MaxSeed :
            /\ pk[1].pk.rho = Entropy(3 * s - 2)
            /\ \A i \in 1..LevelK(level[1]) :
                 pk[1].pk.t_hat.entries[i]
                   = NttDomainPublicVector(level[1], Entropy(3 * s - 2),
                                           Entropy(3 * s - 1), i)

\* the transpose of a k x k matrix of NTT-domain polynomials
TransposeOf(a_hat, k) ==
  PolyMatrixNew(
    [i \in 1..k |->
       PolyVectorNew([j \in 1..k |-> a_hat.rows[j].entries[i]], poly_modulus_ntt)],
    k, k, poly_modulus_ntt)

\* the vector of the pointwise row products of a matrix and a vector, still
\* in the NTT domain
PointwiseRows(a_hat, r_hat, k) ==
  PolyVectorNew([i \in 1..k |-> PointwiseInner(a_hat.rows[i], r_hat, k)],
                poly_modulus_ntt)

\* u as C25 describes it, for the public seed rho and the coins
SingleInverseU(security_level, rho, coins) ==
  compress_vector(
    AddVectors(
      InttVector(
        PointwiseRows(
          TransposeOf(NttMatrix(expand_matrix(rho, LevelK(security_level),
                                              LevelK(security_level), poly_modulus),
                                LevelK(security_level), FALSE),
                      LevelK(security_level)),
          NttVector(SampleVector(coins, LevelK(security_level), 0,
                                 LevelEta1(security_level)),
                    LevelK(security_level)),
          LevelK(security_level)),
        LevelK(security_level)),
      SampleVector(coins, LevelK(security_level), LevelK(security_level),
                   LevelEta2(security_level)),
      LevelK(security_level), poly_modulus),
    DU)

\* C25: encrypt applies exactly one inverse transform to u.
\* u = InvNTT(A-hat^T * r-hat) + e1 (then compressed to d_u bits), where
\* A-hat^T is the transpose of the same matrix A that keygen expands from rho.
EncryptInvertsUOnce ==
  cpa_ct # None
    => /\ ~cpa_ct[1].panic
       /\ \E j \in 1..MaxMsg :
            cpa_ct[1].u = SingleInverseU(level[1], pk[1].pk.rho, Entropy(300 + j))

\* the three ways of multiplying one pair of entries
PairProduct(path, a, b, ntt) ==
  CASE path = "transform" ->
         ntt_inverse(ntt_pointwise_mul(ntt_forward(a, ntt[1]), ntt_forward(b, ntt[1])),
                     ntt[1])
    [] path = "pointwise" -> ntt_inverse(ntt_pointwise_mul(a, b), ntt[1])
    [] path = "schoolbook" -> schoolbook_mul(a, b)

\* the products of the first i pairs, taken along one path and added to the
\* zero polynomial
RECURSIVE Accumulated(_, _, _, _, _)
Accumulated(path, self, other, ntt, i) ==
  IF i = 0 THEN PolynomialZero(modulus_info(self))
  ELSE PolyAdd(Accumulated(path, self, other, ntt, i - 1),
               PairProduct(path, self.entries[i], other.entries[i], ntt))

\* every entry of both operands carries the tag
AllTagged(tag) ==
  /\ \A i \in 1..Len(lib_in.self.entries) : lib_in.self.entries[i].is_ntt_form = tag
  /\ \A i \in 1..Len(lib_in.other.entries) : lib_in.other.entries[i].is_ntt_form = tag

Reconstructed(i) ==
  (lib_out[1].high.coeffs[i] * lib_in.gamma2 + lib_out[1].low.coeffs[i]) % lib_in.poly.q

\* C27: high/low decomposition reconstructs the input.  For every coefficient
\* x in [0, q) and every gamma2 > 0, with h = high_bits(x) and l = low_bits(x),
\* h * gamma2 + l is congruent to x modulo q, up to the difference of at most
\* 1 that the test allows.
DecompositionReconstructs ==
  lib_in.kind = "decompose" /\ lib_out # None
    => \A i \in 0..3 :
         /\ Reconstructed(i) - lib_in.poly.coeffs[i] <= 1
         /\ lib_in.poly.coeffs[i] - Reconstructed(i) <= 1

\* the same where no remainder is above gamma2 / 2
DecompositionReconstructsUncentered ==
  (lib_in.kind = "decompose" /\ lib_out # None
     /\ \A i \in 0..3 : Rem(lib_in.poly.coeffs[i], lib_in.gamma2) <= Quot(lib_in.gamma2, 2))
    => \A i \in 0..3 : Reconstructed(i) = lib_in.poly.coeffs[i]

\* a returned polynomial has exactly n = degree coefficients, each built with
\* the modulus q of the descriptor and in its range
WellShaped(poly) ==
  /\ DOMAIN poly.coeffs = 0..poly.degree - 1
  /\ poly.cq = poly.q
  /\ \A i \in 0..poly.degree - 1 : InRange(poly.coeffs[i], poly.q)

\* C28: polynomial shape invariant.  Every polynomial returned by new, zero,
\* constant, from_bytes, add, sub, neg, scalar_mul, schoolbook_mul, compress,
\* decompress, ntt_forward and ntt_inverse has exactly n = modulus_info.degree
\* coefficients, and every coefficient carries the modulus q of the
\* polynomial's modulus descriptor.
PolynomialShapeInvariant ==
  lib_in.kind = "poly" /\ lib_out # None /\ ~lib_out[1].panic => WellShaped(lib_out[1])

\* the same for the calls whose operands are built with the modulus of their
\* descriptor
PolynomialShapePreserved ==
  (lib_in.kind = "poly" /\ lib_out # None /\ ~lib_out[1].panic
     /\ ~(lib_in.op = "new" /\ lib_in.in.cq # 17))
    => WellShaped(lib_out[1])

\* the bytes Polynomial::to_bytes writes for one polynomial of the Kyber
\* degree at the given width: n * ceil(bits / 8)
WrittenPolyBytes(bits) == N * ((bits + 7) \div 8)

\* C29: writer/reader layout agreement.  For every level the readers
\* pk_from_bytes, sk_from_bytes, ciphertext_from_bytes and kem::sk_from_bytes
\* take each polynomial and field from the n * ceil(bits/8) bytes and the
\* offset at which the matching *_to_bytes wrote it, and
\* sizes::public_key_bytes, secret_key_cpa_bytes, secret_key_kem_bytes and
\* ciphertext_bytes are the lengths of the strings the serializers produce.
LayoutAgreement ==
  /\ pk_stored # None
       => /\ ~pk_stored[1].panic
          /\ Len(pk_to_bytes(pk[1].pk).bytes) = public_key_bytes(level[1])
          /\ \A i \in 1..LevelK(level[1]) :
               pk_stored[1].t_hat.entries[i]
                 = UnpackKeyPoly(pk_to_bytes(pk[1].pk).bytes,
                                 SEED_BYTES + (i - 1) * WrittenPolyBytes(PkCoeffBits),
                                 WrittenPolyBytes(PkCoeffBits))
  /\ sk_stored # None
       => /\ ~sk_stored[1].panic
          /\ Len(sk_to_bytes(sk[1].sk).bytes) = secret_key_cpa_bytes(level[1])
          /\ \A i \in 1..LevelK(level[1]) :
               sk_stored[1].s_hat.entries[i]
                 = UnpackKeyPoly(sk_to_bytes(sk[1].sk).bytes,
                                 (i - 1) * WrittenPolyBytes(PkCoeffBits),
                                 WrittenPolyBytes(PkCoeffBits))
  /\ sk_loaded # None
       => /\ ~sk_loaded[1].panic
          /\ Len(kem_sk_to_bytes(sk[1]).bytes) = secret_key_kem_bytes(level[1])
          /\ sk_loaded[1].h_pk = sk[1].h_pk
          /\ sk_loaded[1].z = sk[1].z
  /\ (wire_kind = "honest" /\ ct_src = "wire" /\ ct_in # None)
       => /\ ~ct_in[1].panic
          /\ Len(wire[1]) = ciphertext_bytes(level[1])
          /\ ct_in[1].v
               = from_bytes(Slice(wire[1], LevelK(level[1]) * WrittenPolyBytes(DU),
                                  LevelK(level[1]) * WrittenPolyBytes(DU)
                                    + WrittenPolyBytes(DV)),
                            ModulusInfo(N, Pow2(DV), FALSE), DV)

\* decaps was handed an honest ciphertext and decrypted the very m that
\* encaps drew, under the h_pk that encaps hashed
DecryptedEncapsulatedMessage ==
  /\ enc # None /\ ~enc[1].panic /\ dec # None /\ ~dec[1].panic
  /\ ct_src = "direct" \/ wire_kind = "honest"
  /\ \E i \in 1..MaxMsg :
       /\ dec[1].m_prime = Entropy(100 + i)
       /\ enc[1].shared_secret = hash_g(Entropy(100 + i), sk[1].h_pk).k

RECURSIVE PopCount(_, _)
PopCount(a, bits) ==
  IF bits = 0 THEN 0 ELSE (a % 2) + PopCount(a \div 2, bits - 1)

\* the number of bit positions in which the first t bytes of a and b differ
RECURSIVE BitDiffs(_, _, _)
BitDiffs(a, b, t) ==
  IF t = 0 THEN 0
  ELSE BitDiffs(a, b, t - 1) + PopCount(Xor8(a[t], b[t], 8), 8)

\* a polynomial of n coefficients, all zero, over the modulus q
IsZeroPoly(poly, n, q) ==
  /\ ~poly.panic
  /\ poly.degree = n /\ poly.q = q
  /\ DOMAIN poly.coeffs = 0..n - 1
  /\ \A i \in 0..n - 1 : poly.coeffs[i] = 0

\* C1: KEM round trip.  Whenever decaps is given the very ciphertext that
\* encaps returned, it takes the K' branch (its re-encryption serializes to
\* the same bytes) and returns the 32 bytes of encaps's shared_secret.
KemRoundTrip ==
  (enc # None /\ ct_src = "direct" /\ dec # None)
    => /\ ~dec[1].panic
       /\ dec[1].ct_bytes = dec[1].ct_prime_bytes
       /\ dec[1].k_prime = enc[1].shared_secret
       /\ dec[1].out = enc[1].shared_secret

\* C2: CPA round trip.  decrypt(sk, encrypt(pk, msg, coins)) differs from msg
\* in at most 2 of its 256 bits.
CpaRoundTrip ==
  cpa_out # None
    => /\ ~cpa_out[1].panic
       /\ BitDiffs(cpa_out[1].msg, cpa_msg[1], 32) <= 2

\* what C3 says of one call d = decaps(key, ct)
SelectionHolds(d, key, ct) ==
  /\ ~d.panic
  /\ d.m_prime = cpa_decrypt(key.sk, ct).msg
  /\ d.k_prime = hash_g(d.m_prime, key.h_pk).k
  /\ d.ct_prime_bytes =
       ciphertext_to_bytes(
         cpa_encrypt(key.pk, d.m_prime, hash_g(d.m_prime, key.h_pk).r_coins)).bytes
  /\ d.ct_bytes = ciphertext_to_bytes(ct).bytes
  /\ (d.out = d.k_prime) <=> (d.ct_prime_bytes = d.ct_bytes)
  /\ d.ct_prime_bytes # d.ct_bytes => d.out = sha3_256(key.z \o d.ct_bytes)

\* C3: decaps output selection.  Every call of decaps, with the fresh or the
\* reloaded secret key, decrypts m', derives (K', r') = G(m', h_pk),
\* re-encrypts m' under r', and returns K' exactly when the re-encryption
\* serializes to the bytes of the received ciphertext; otherwise it returns
\* SHA3-256(z || ct_bytes).
DecapsSelection ==
  /\ dec # None => SelectionHolds(dec[1], sk[1], ct_in[1])
  /\ dec_loaded # None => SelectionHolds(dec_loaded[1], sk_loaded[1], ct_in[1])

\* a decaps that compared differing serializations and returned the
\* implicit-rejection key
DecapsRejected ==
  /\ dec # None /\ ~dec[1].panic
  /\ dec[1].ct_prime_bytes # dec[1].ct_bytes
  /\ Len(dec[1].ct_prime_bytes) = Len(dec[1].ct_bytes)
  /\ dec[1].out = sha3_256(sk[1].z \o dec[1].ct_bytes)
  /\ dec[1].out # dec[1].k_prime

\* C4: tamper rejection.  After one byte of the honest serialized ciphertext
\* is flipped, deserializing and decapsulating returns a key other than K,
\* namely SHA3-256(z || the tampered bytes).
TamperRejected ==
  (wire_kind = "flipped" /\ ct_src = "wire" /\ dec # None)
    => /\ ~dec[1].panic
       /\ dec[1].out # enc[1].shared_secret
       /\ dec[1].out = sha3_256(sk[1].z \o wire[1])

\* C5: ciphertext serialization round trip.  The ciphertext read back from
\* the honest bytes of ciphertext_to_bytes(ct) serializes to those bytes.
CiphertextBytesRoundTrip ==
  (wire_kind = "honest" /\ ct_src = "wire" /\ ct_in # None)
    => ciphertext_to_bytes(ct_in[1]) = Bytes(wire[1])

\* C6: CPA key serialization round trip.  The keys read back from
\* pk_to_bytes(pk) and sk_to_bytes(sk) carry the original t-hat and s-hat
\* and serialize to the same bytes.
CpaKeyBytesRoundTrip ==
  /\ pk_stored # None
       => /\ ~pk_stored[1].panic
          /\ pk_stored[1].t_hat = pk[1].pk.t_hat
          /\ pk_to_bytes(pk_stored[1]) = pk_to_bytes(pk[1].pk)
  /\ sk_stored # None
       => /\ ~sk_stored[1].panic
          /\ sk_stored[1].s_hat = sk[1].sk.s_hat
          /\ sk_to_bytes(sk_stored[1]) = sk_to_bytes(sk[1].sk)

\* C7: KEM secret-key round trip.  The key read back from sk_to_bytes(sk)
\* has the same h_pk and z, serializes to the same bytes, and decapsulates
\* every ciphertext to the same key as sk does.
KemSkRoundTrip ==
  sk_loaded # None
    => /\ ~sk_loaded[1].panic
       /\ sk_loaded[1].h_pk = sk[1].h_pk
       /\ sk_loaded[1].z = sk[1].z
       /\ dec_loaded # None => dec_loaded[1] = dec[1]
       /\ kem_sk_to_bytes(sk_loaded[1]) = kem_sk_to_bytes(sk[1])

\* C8: under-sized ciphertext bytes.  Bytes shorter than the deserializer
\* expects for the level are read, without failure, as k all-zero
\* polynomials u over 2^d_u and an all-zero polynomial v over 2^d_v.
ShortBytesReadAsZero ==
  (ct_src = "wire" /\ ct_in # None /\ Len(wire[1]) < ciphertext_bytes(level[1]))
    => /\ ~ct_in[1].panic
       /\ ~ct_in[1].u.panic
       /\ ct_in[1].u.q = Pow2(DU)
       /\ Len(ct_in[1].u.entries) = LevelK(level[1])
       /\ \A i \in 1..LevelK(level[1]) : IsZeroPoly(ct_in[1].u.entries[i], N, Pow2(DU))
       /\ IsZeroPoly(ct_in[1].v, N, Pow2(DV))

\* bytes one short of the expected size have been read as the zero ciphertext
ShortBytesRead ==
  /\ wire_kind = "cut" /\ ct_src = "wire" /\ ct_in # None
  /\ Len(wire[1]) = ciphertext_bytes(level[1]) - 1
  /\ ~ct_in[1].panic
  /\ IsZeroPoly(ct_in[1].v, N, Pow2(DV))

\* C9: decaps never surfaces an error.  Whatever bytes the ciphertext was
\* read from (honest, flipped, cut or forged), decaps with the fresh or the
\* reloaded secret key returns 32 bytes and does not panic.
DecapsNeverFails ==
  /\ (ct_src = "wire" /\ ct_in # None) => ~ct_in[1].panic
  /\ (ct_src = "wire" /\ dec # None)
       => /\ ~dec[1].panic
          /\ Len(dec[1].out) = 32
          /\ \A t \in 1..32 : dec[1].out[t] \in 0..255
  /\ (ct_src = "wire" /\ dec_loaded # None /\ ~sk_loaded[1].panic)
       => /\ ~dec_loaded[1].panic
          /\ Len(dec_loaded[1].out) = 32

\* decaps has returned 32 bytes for a ciphertext read from forged bytes
ForgedBytesDecapsulated ==
  /\ wire_kind = "forged" /\ ct_src = "wire"
  /\ dec # None /\ ~dec[1].panic
  /\ Len(dec[1].out) = 32

\* C10: the NTT product equals the schoolbook product.  For every parameter
\* set and pair of operands, ntt_polynomial_mul(p, r) has the coefficients
\* of p.schoolbook_mul(r).
NttMatchesSchoolbook ==
  (prod_ntt # None /\ prod_school # None)
    => /\ ~prod_ntt[1].panic /\ ~prod_school[1].panic
       /\ prod_ntt[1].coeffs = prod_school[1].coeffs

====
